---- MODULE Spec2Model ----
(***************************************************************************)
(* Orchestration engine of lidco: the per-agent ReAct loop                 *)
(* (agents/base.py), the model router with its retry policy                *)
(* (llm/router.py, llm/retry.py, llm/litellm_provider.py) and the          *)
(* cross-agent workflow graph (agents/graph.py).                           *)
(*                                                                         *)
(* The state machines of this module, one specification each:               *)
(*   Spec        BaseAgent.run with BaseAgent._execute_tool                *)
(*   SpecRouter  ModelRouter.complete / ModelRouter.stream over            *)
(*               LiteLLMProvider and with_retry                            *)
(*   SpecGraph   GraphOrchestrator.handle over the compiled graph          *)
(*               (SpecGraphLive, SpecGraphDefaults, SpecGraphSession:      *)
(*               the same graph from other orchestrators, the last one     *)
(*               over several handle() calls)                              *)
(*   SpecPruner  prune_conversation                                        *)
(*   SpecConv    the conversation of BaseAgent.run and its pruning step    *)
(*   SpecCache   the tool-schema and router-prompt caches                  *)
(*   SpecStream  BaseAgent._stream_complete                                *)
(*   SpecRetry   with_retry and its backoff delays                         *)
(* Strings that the code concatenates are sequences of tokens here.        *)
(***************************************************************************)
EXTENDS Integers, Sequences, FiniteSets, TLC

VARIABLES
    \* ---- BaseAgent.run (agents/base.py) ----
    cfg,            \* AgentConfig.max_iterations and the handlers set on the agent
    pc,             \* position of run()
    iteration,      \* local `iteration`
    max_iter,       \* local `max_iter`
    conversation,   \* self._conversation
    all_tool_calls, \* local `all_tool_calls`
    parsed_calls,   \* local `parsed_calls` of the batch being dispatched
    mode,           \* branch taken at `if all_read_only`
    task,           \* per call of the batch: position of its dispatch, its ToolResult
    completed,      \* indexes of the batch in completion order
    response,       \* the AgentResponse returned by run()
    llm_calls,      \* observation: model calls issued
    approvals,      \* observation: approvals given by the continue handler
    consulted,      \* observation: call ids the permission handler was asked about
    denied,         \* observation: call ids the permission handler refused
    executed,       \* observation: call ids for which tool.execute was invoked
    clar_asked,     \* observation: invocations of the clarification handler
    dispatched,     \* observation: the calls _execute_tool was invoked for, in order
    tool_events     \* observation: the calls of self._tool_event_callback, in order

loopVars == <<cfg, pc, iteration, max_iter, conversation, all_tool_calls,
              parsed_calls, mode, task, completed, response, llm_calls,
              approvals, consulted, denied, executed, clar_asked, dispatched,
              tool_events>>

VARIABLES
    \* ---- ModelRouter over LiteLLMProvider and with_retry (llm/) ----
    r_cfg,          \* the router's and the provider's configuration, the call's arguments
    chain,          \* local `chain` of complete()/stream()
    cand,           \* index in `chain` of the candidate being tried
    attempt,        \* with_retry's `attempt` for that candidate
    r_pc,           \* position of the call
    calls_log,      \* observation: every litellm.acompletion call, with its outcome
    sleeps,         \* observation: the model and `attempt` of each asyncio.sleep of with_retry
    last_error,     \* local `last_error`: the candidate whose failure was caught last
    r_result,       \* the model whose response complete() returned
    yielded         \* observation: chunks stream() yielded to its consumer

routerVars == <<r_cfg, chain, cand, attempt, r_pc, calls_log, sleeps, last_error,
                r_result, yielded>>

VARIABLES
    \* ---- GraphOrchestrator.handle (agents/graph.py) ----
    g_cfg,          \* the orchestrator's configuration and handle()'s agent_name
    node,           \* the graph node to run next
    st,             \* the GraphState threaded through the nodes
    trace,          \* observation: the nodes run so far, in order
    runs,           \* observation: run() calls of the planner, the selected agent, the reviewer
    coder_log,      \* observation: what each run of the selected agent did
    review_log,     \* observation: the text of each auto-review the reviewer returned
    approval,       \* observation: the handler's answer to "Approve this plan?"
    memory,         \* observation: auxiliary model calls and entries added in finalize
    routed,         \* observation: the flags of the routing model's reply
    agent_sinks,    \* the registered agents whose _stream_callback is set
    sink_runs,      \* observation: the nodes of this handle() whose agent ran with a sink
    handles,        \* observation: handle() invocations on this orchestrator so far
    reviewed_run,   \* observation: the run of the selected agent the latest review is of
    g_response      \* the AgentResponse returned by handle()

graphVars == <<g_cfg, node, st, trace, runs, coder_log, review_log, approval,
               memory, routed, agent_sinks, sink_runs, handles, reviewed_run,
               g_response>>

VARIABLES
    \* ---- prune_conversation (core/conversation_pruner.py) ----
    p_in,           \* the arguments: messages, max_chars, keep_recent_exchanges
    p_out,          \* the returned list
    p_pc            \* "input" before the call, "pruned" after it

prunerVars == <<p_in, p_out, p_pc>>

VARIABLES
    \* ---- the conversation of BaseAgent.run (agents/base.py) ----
    c_window,       \* self._config.context_window
    c_conv,         \* self._conversation
    c_log,          \* every message as it was when it was put in the conversation
    c_pending,      \* ids of the tool calls whose messages are still to be appended
    c_pc            \* "loop_top", "dispatch", "returned"

convVars == <<c_window, c_conv, c_log, c_pending, c_pc>>

VARIABLES
    \* ---- the caches of BaseAgent and GraphOrchestrator ----
    tool_registry,        \* ToolRegistry._tools: the tool names in registration order
    agent_tools,          \* AgentConfig.tools of the agent (empty: every tool)
    tool_schemas_cache,   \* BaseAgent._tool_schemas_cache
    passed_tools,         \* observation: the tools= argument of the latest run's model calls
    agent_registry,       \* AgentRegistry._agents: the agent names in registration order
    router_prompt_cache,  \* GraphOrchestrator._router_prompt_cache
    passed_prompt,        \* observation: the system prompt of the latest routing call
    k_pc                  \* the latest operation: "built", "register_tool", "run", ...

cacheVars == <<tool_registry, agent_tools, tool_schemas_cache, passed_tools,
               agent_registry, router_prompt_cache, passed_prompt, k_pc>>

VARIABLES
    \* ---- BaseAgent._stream_complete (agents/base.py) ----
    s_pc,                    \* "streaming", "returned", "raised"
    s_chunks,                \* observation: the chunks the stream has yielded, in order
    full_content,            \* local `full_content`
    accumulated_tool_calls,  \* local `accumulated_tool_calls`: index -> tool call
    stream_sink,             \* observation: the arguments of self._stream_callback, in order
    s_response               \* the LLMResponse returned

streamVars == <<s_pc, s_chunks, full_content, accumulated_tool_calls, stream_sink,
                s_response>>

VARIABLES
    \* ---- with_retry (llm/retry.py) ----
    w_cfg,          \* the RetryConfig
    w_attempt,      \* local `attempt`
    w_sleeps,       \* observation: the argument of each asyncio.sleep, in order
    w_pc            \* "calling", "sleeping", "returned", "raised"

retryVars == <<w_cfg, w_attempt, w_sleeps, w_pc>>

vars == <<loopVars, routerVars, graphVars, prunerVars, convVars, cacheVars,
         streamVars, retryVars>>

----------------------------------------------------------------------------
\* Bounds of the agent-loop model
MaxIterations == 1      \* AgentConfig.max_iterations ranges over 0..MaxIterations
MaxApprovals == 1       \* approvals the continue handler gives in one run
MaxBatch == 2           \* tool calls in one model response
MaxToolCalls == 2       \* tool calls in one run

\* Tool names the model may request; "nope" is not registered
CallNames == {"file_read", "grep", "file_write", "ask_user", "nope"}

\* The `arguments` string of a requested call: a JSON object, or text that
\* json.loads rejects
GoodArguments == "{\"path\": \"a\"}"
BadArguments == "{\"path\": "

\* What one requested tool call may be
Requests ==
    [name : CallNames, arguments : {GoodArguments}]
    \cup [name : {"grep"}, arguments : {BadArguments}]

\* json.loads(tool_call["function"]["arguments"]), {} on JSONDecodeError
tool_args_of(arguments) ==
    IF arguments = GoodArguments THEN "{path: a}" ELSE "{}"
\* ToolRegistry.create_default_registry (the names this model uses)
Registered == {"file_read", "glob", "grep", "file_write", "ask_user"}
\* base.py:378
read_only_tools == {"file_read", "glob", "grep"}

ToolResult(success, output, error) ==
    [success |-> success, output |-> output, error |-> error]
NoResult == ToolResult(FALSE, <<>>, "<pending>")

Message(role, content, tool_calls, tool_call_id, name) ==
    [role |-> role, content |-> content, tool_calls |-> tool_calls,
     tool_call_id |-> tool_call_id, name |-> name]

AgentResponse(content, tool_calls_made, iterations) ==
    [kind |-> "response", content |-> content,
     tool_calls_made |-> tool_calls_made, iterations |-> iterations]
NoResponse == [kind |-> "none", content |-> <<>>, tool_calls_made |-> <<>>,
               iterations |-> 0]

\* All sequences over S of length 1..n
RECURSIVE SeqsUpTo(_, _)
SeqsUpTo(S, n) ==
    IF n = 0 THEN {}
    ELSE LET shorter == SeqsUpTo(S, n - 1)
         IN  {<<x>> : x \in S} \cup shorter
             \cup {Append(s, x) : s \in shorter, x \in S}

\* The tool calls one model response may request
RequestBatches == SeqsUpTo(Requests, MaxBatch)

\* What a tool's _run does with one call: returns a result, raises an ordinary
\* exception, or (ask_user) raises ClarificationNeeded / returns "Question is required."
RunOutcomes(name) ==
    IF name = "ask_user" THEN {"clarify", "no_question"} ELSE {"ok", "error"}

\* BaseTool.execute: `except Exception` turns every exception of _run into a failed
\* ToolResult; ClarificationNeeded derives from Exception, so it is caught here too
\* and execute never raises it (str(ClarificationNeeded) is the question).
BaseTool_execute(name, outcome) ==
    CASE outcome = "ok" ->
            [raised |-> FALSE, result |-> ToolResult(TRUE, <<"output">>, "")]
      [] outcome = "error" ->
            [raised |-> FALSE, result |-> ToolResult(FALSE, <<>>, "tool failure")]
      [] outcome = "no_question" ->
            [raised |-> FALSE, result |-> ToolResult(FALSE, <<>>, "Question is required.")]
      [] outcome = "clarify" ->
            [raised |-> FALSE, result |-> ToolResult(FALSE, <<>>, "the question")]

\* _execute_tool from `try: return await tool.execute(...)` on: the result of
\* execute, or the interception of ClarificationNeeded. `answer` is what the
\* clarification handler does when asked: an answer, or "raise".
execute_tool_tail(executed_, has_handler, answer) ==
    IF ~executed_.raised THEN executed_.result
    ELSE IF has_handler
         THEN IF answer = "raise"
              THEN ToolResult(FALSE, <<>>, "Clarification handler failed")
              ELSE ToolResult(TRUE, <<"User answered: ", answer>>, "")
         ELSE ToolResult(FALSE, <<>>, "No clarification handler available to ask the user.")

\* The permission gate of _execute_tool: what follows the handler's answer
permission_gate_mut(allowed) == "exec"
permission_gate(allowed) == IF allowed THEN "exec" ELSE "denied"

\* truncate_tool_result: every output of this model is within max_chars
truncate_tool_result(name, raw) == raw

\* The tool message run() appends for one completed call
tool_message_unlabelled(call, result) ==
    Message("tool",
            truncate_tool_result(call.name,
                IF result.success THEN result.output
                ELSE <<"Error: ", result.error>>),
            <<>>, 0, call.name)
tool_message(call, result) ==
    Message("tool",
            truncate_tool_result(call.name,
                IF result.success THEN result.output
                ELSE <<"Error: ", result.error>>),
            <<>>, call.id, call.name)

all_read_only(calls) ==
    /\ Len(calls) > 1
    /\ \A k \in 1..Len(calls) : calls[k].name \in read_only_tools

\* asyncio.gather returns the results in the order of the awaitables it was given
gather_order_mut(n, done_order) == done_order
gather_order(n, done_order) == [k \in 1..n |-> k]

----------------------------------------------------------------------------
\* BaseAgent.run

Batch(requests, first_id) ==
    [k \in 1..Len(requests) |->
        [id |-> first_id + k, name |-> requests[k].name,
         args |-> tool_args_of(requests[k].arguments)]]

\* all_tool_calls.append({"tool": tool_name, "args": tool_args}) for each call
record_tool_calls_mut(made, calls) ==
    made \o SelectSeq([k \in 1..Len(calls) |->
                          [tool |-> calls[k].name, args |-> calls[k].args,
                           call |-> calls[k].id]],
                      LAMBDA e : e.tool \in Registered)
record_tool_calls(made, calls) ==
    made \o [k \in 1..Len(calls) |->
                [tool |-> calls[k].name, args |-> calls[k].args,
                 call |-> calls[k].id]]

\* self._tool_event_callback(event, name, args, result), when a callback is set;
\* `call` identifies the tool call the event belongs to
tool_event(event, call, result) ==
    [event |-> event, call |-> call.id, name |-> call.name, args |-> call.args,
     result |-> result]
fire_tool_event(events, event, call, result) ==
    IF cfg.tool_event_callback
    THEN Append(events, tool_event(event, call, result))
    ELSE events

NewTask == [st |-> "new", outcome |-> "", result |-> NoResult]

CapResponse ==
    AgentResponse(<<"Reached maximum iterations. Here's what I have so far.">>,
                  all_tool_calls, iteration)

\* The LLMResponse _stream_complete returns (lines 240-250)
LLMResponse(content, tool_calls) ==
    [kind |-> "response", content |-> content, tool_calls |-> tool_calls]
NoLLMResponse == [kind |-> "none", content |-> <<>>, tool_calls |-> <<>>]

\* The machines that are not running
RetryOff ==
    /\ w_cfg = <<>>
    /\ w_attempt = 0
    /\ w_sleeps = <<>>
    /\ w_pc = "off"

StreamOff ==
    /\ s_pc = "off"
    /\ s_chunks = <<>>
    /\ full_content = <<>>
    /\ accumulated_tool_calls = <<>>
    /\ stream_sink = <<>>
    /\ s_response = NoLLMResponse

\* The router is not part of this machine: the model call is one step of it
CacheOff ==
    /\ tool_registry = <<>>
    /\ agent_tools = <<>>
    /\ tool_schemas_cache = <<>>
    /\ passed_tools = <<>>
    /\ agent_registry = <<>>
    /\ router_prompt_cache = <<>>
    /\ passed_prompt = <<>>
    /\ k_pc = "off"

ConvOff ==
    /\ c_window = 0
    /\ c_conv = <<>>
    /\ c_log = <<>>
    /\ c_pending = <<>>
    /\ c_pc = "off"

PrunerOff ==
    /\ p_in = <<>>
    /\ p_out = <<>>
    /\ p_pc = "off"

RouterOff ==
    /\ r_cfg = <<>>
    /\ chain = <<>>
    /\ cand = 0
    /\ attempt = 0
    /\ r_pc = "off"
    /\ calls_log = <<>>
    /\ sleeps = <<>>
    /\ last_error = ""
    /\ r_result = ""
    /\ yielded = <<>>

\* Nor is the workflow graph
GraphOff ==
    /\ g_cfg = <<>>
    /\ node = "off"
    /\ st = <<>>
    /\ trace = <<>>
    /\ runs = <<>>
    /\ coder_log = <<>>
    /\ review_log = <<>>
    /\ approval = "<not asked>"
    /\ memory = <<>>
    /\ routed = <<>>
    /\ agent_sinks = {}
    /\ sink_runs = {}
    /\ handles = 0
    /\ reviewed_run = 0
    /\ g_response = NoResponse

InitLoop ==
    /\ cfg \in [max_iterations : 0..MaxIterations,
                continue_handler : BOOLEAN,
                permission_handler : BOOLEAN,
                clarification_handler : BOOLEAN,
                tool_event_callback : BOOLEAN]
    /\ pc = "loop_top"
    /\ iteration = 0
    /\ max_iter = cfg.max_iterations
    /\ conversation = << Message("system", <<"system prompt">>, <<>>, 0, ""),
                         Message("user", <<"user message">>, <<>>, 0, "") >>
    /\ all_tool_calls = <<>>
    /\ parsed_calls = <<>>
    /\ mode = "none"
    /\ task = <<>>
    /\ completed = <<>>
    /\ response = NoResponse
    /\ llm_calls = 0
    /\ approvals = 0
    /\ consulted = {}
    /\ denied = {}
    /\ executed = {}
    /\ clar_asked = 0
    /\ dispatched = <<>>
    /\ tool_events = <<>>
    /\ RouterOff
    /\ GraphOff
    /\ PrunerOff
    /\ ConvOff
    /\ CacheOff
    /\ StreamOff
    /\ RetryOff

\* `while True:` top, lines 289-305: the cap check
CheckCap ==
    /\ pc = "loop_top"
    /\ IF iteration >= max_iter
       THEN IF cfg.continue_handler
            THEN /\ pc' = "continue_wait"
                 /\ UNCHANGED <<iteration, response>>
            ELSE /\ pc' = "returned"
                 /\ response' = CapResponse
                 /\ UNCHANGED iteration
       ELSE /\ iteration' = iteration + 1
            /\ pc' = "llm_call"
            /\ UNCHANGED response
    /\ UNCHANGED <<cfg, max_iter, conversation, all_tool_calls, parsed_calls, mode,
                   task, completed, llm_calls, approvals, consulted, denied,
                   executed, clar_asked>>
    /\ UNCHANGED <<dispatched, tool_events>>
    /\ UNCHANGED <<routerVars, graphVars, prunerVars, convVars, cacheVars, streamVars, retryVars>>

\* The continue handler, run in the executor, returns or raises (lines 295-301)
ContinueReturn ==
    /\ pc = "continue_wait"
    /\ \E should_continue \in {"yes", "no", "raise"} :
         CASE should_continue = "yes" ->
                /\ approvals < MaxApprovals
                /\ max_iter' = max_iter + cfg.max_iterations
                /\ approvals' = approvals + 1
                /\ iteration' = iteration + 1
                /\ pc' = "llm_call"
                /\ UNCHANGED response
           [] should_continue = "no" ->
                /\ pc' = "returned"
                /\ response' = CapResponse
                /\ UNCHANGED <<max_iter, approvals, iteration>>
           [] should_continue = "raise" ->
                /\ pc' = "raised"
                /\ UNCHANGED <<max_iter, approvals, iteration, response>>
    /\ UNCHANGED <<cfg, conversation, all_tool_calls, parsed_calls, mode, task,
                   completed, llm_calls, consulted, denied, executed, clar_asked>>
    /\ UNCHANGED <<dispatched, tool_events>>
    /\ UNCHANGED <<routerVars, graphVars, prunerVars, convVars, cacheVars, streamVars, retryVars>>

\* One model call (lines 325-382): it fails, answers with text, or requests tools
LLMCall ==
    /\ pc = "llm_call"
    /\ llm_calls' = llm_calls + 1
    /\ \E kind \in {"fail", "final", "tools"} :
         CASE kind = "fail" ->
                /\ pc' = "raised"
                /\ UNCHANGED <<conversation, all_tool_calls, parsed_calls, mode, task,
                               completed, response>>
           [] kind = "final" ->
                /\ pc' = "returned"
                /\ response' = AgentResponse(<<"final answer">>, all_tool_calls, iteration)
                /\ UNCHANGED <<conversation, all_tool_calls, parsed_calls, mode, task,
                               completed>>
           [] kind = "tools" ->
                \E requests \in RequestBatches :
                  LET calls == Batch(requests, Len(all_tool_calls)) IN
                  /\ Len(all_tool_calls) + Len(requests) <= MaxToolCalls
                  /\ conversation' = Append(conversation,
                        Message("assistant", <<"thinking">>,
                                [k \in 1..Len(calls) |-> calls[k].id], 0, ""))
                  /\ parsed_calls' = calls
                  /\ all_tool_calls' = record_tool_calls(all_tool_calls, calls)
                  /\ mode' = IF all_read_only(calls) THEN "parallel" ELSE "sequential"
                  /\ task' = [k \in 1..Len(calls) |-> NewTask]
                  /\ completed' = <<>>
                  /\ pc' = "dispatch"
                  /\ UNCHANGED response
    /\ UNCHANGED <<cfg, iteration, max_iter, approvals, consulted, denied,
                   executed, clar_asked>>
    /\ UNCHANGED <<dispatched, tool_events>>
    /\ UNCHANGED <<routerVars, graphVars, prunerVars, convVars, cacheVars, streamVars, retryVars>>

\* A call of the batch completes with `result`. Sequential path (lines 410-429): its
\* tool message is appended at once, and the loop goes on after the last call.
\* Parallel path: the result waits for the gather.
Complete(i, outcome, result) ==
    /\ task' = [task EXCEPT ![i] = [st |-> "done", outcome |-> outcome,
                                    result |-> result]]
    /\ completed' = Append(completed, i)
    /\ IF mode = "sequential"
       THEN /\ conversation' = Append(conversation,
                                      tool_message(parsed_calls[i], result))
            /\ pc' = IF i = Len(parsed_calls) THEN "loop_top" ELSE pc
       ELSE UNCHANGED <<conversation, pc>>

\* When the dispatch of call i may begin: the tasks of a gather start in the order
\* given; the sequential `for` starts a call when the one before is done.
MayStart_gathered(i) ==
    /\ task[i].st = "new"
    /\ \A j \in 1..(i - 1) : task[j].st # "new"
MayStart(i) ==
    /\ task[i].st = "new"
    /\ \A j \in 1..(i - 1) :
         IF mode = "parallel" THEN task[j].st # "new" ELSE task[j].st = "done"

\* _execute_tool up to its first suspension (lines 442-456)
TaskStart(i) ==
    /\ pc = "dispatch"
    /\ i \in DOMAIN task
    /\ MayStart(i)
    /\ LET call == parsed_calls[i] IN
       IF call.name \notin Registered
       THEN /\ Complete(i, "", ToolResult(FALSE, <<>>, "Unknown tool"))
            /\ tool_events' =
                   fire_tool_event(fire_tool_event(tool_events, "start", call, NoResult),
                                   "end", call,
                                   ToolResult(FALSE, <<>>, "Unknown tool"))
            /\ UNCHANGED <<consulted, executed>>
       ELSE /\ tool_events' = fire_tool_event(tool_events, "start", call, NoResult)
            /\ IF cfg.permission_handler
               THEN /\ task' = [task EXCEPT ![i].st = "perm"]
                    /\ consulted' = consulted \cup {call.id}
                    /\ UNCHANGED <<executed, completed, conversation, pc>>
               ELSE /\ task' = [task EXCEPT ![i].st = "exec"]
                    /\ executed' = executed \cup {call.id}
                    /\ UNCHANGED <<consulted, completed, conversation, pc>>
    /\ UNCHANGED <<cfg, iteration, max_iter, all_tool_calls, parsed_calls, mode,
                   response, llm_calls, approvals, denied, clar_asked>>
    /\ dispatched' = Append(dispatched, parsed_calls[i])
    /\ UNCHANGED <<routerVars, graphVars, prunerVars, convVars, cacheVars, streamVars, retryVars>>

\* The permission handler, run in the executor, returns or raises (lines 454-458)
PermReturn(i) ==
    /\ pc = "dispatch"
    /\ i \in DOMAIN task
    /\ task[i].st = "perm"
    /\ \E answer \in {"allow", "deny", "raise"} :
         /\ denied' = IF answer = "deny" THEN denied \cup {parsed_calls[i].id}
                       ELSE denied
         /\ IF answer = "raise"
            THEN /\ pc' = "raised"
                 /\ UNCHANGED <<task, completed, conversation, executed, tool_events>>
            ELSE IF permission_gate(answer = "allow") = "exec"
                 THEN /\ task' = [task EXCEPT ![i].st = "exec"]
                      /\ executed' = executed \cup {parsed_calls[i].id}
                      /\ UNCHANGED <<completed, conversation, pc, tool_events>>
                 ELSE /\ Complete(i, "",
                                  ToolResult(FALSE, <<>>, "Operation denied by user"))
                      /\ tool_events' =
                             fire_tool_event(tool_events, "end", parsed_calls[i],
                                 ToolResult(FALSE, <<>>, "Operation denied by user"))
                      /\ UNCHANGED executed
    /\ UNCHANGED <<cfg, iteration, max_iter, all_tool_calls, parsed_calls, mode,
                   response, llm_calls, approvals, consulted, clar_asked>>
    /\ UNCHANGED dispatched
    /\ UNCHANGED <<routerVars, graphVars, prunerVars, convVars, cacheVars, streamVars, retryVars>>

\* tool.execute returns, and with it _execute_tool (lines 460-489). The handler of
\* an intercepted ClarificationNeeded is asked within this step.
ExecReturn(i) ==
    /\ pc = "dispatch"
    /\ i \in DOMAIN task
    /\ task[i].st = "exec"
    /\ \E outcome \in RunOutcomes(parsed_calls[i].name), answer \in {"A", "raise"} :
         LET ex == BaseTool_execute(parsed_calls[i].name, outcome) IN
         /\ ex.raised \/ answer = "A"
         /\ Complete(i, outcome,
                     execute_tool_tail(ex, cfg.clarification_handler, answer))
         /\ tool_events' =
                fire_tool_event(tool_events, "end", parsed_calls[i],
                    execute_tool_tail(ex, cfg.clarification_handler, answer))
         /\ clar_asked' = IF ex.raised /\ cfg.clarification_handler
                          THEN clar_asked + 1 ELSE clar_asked
    /\ UNCHANGED <<cfg, iteration, max_iter, all_tool_calls, parsed_calls, mode,
                   response, llm_calls, approvals, consulted, denied, executed>>
    /\ UNCHANGED dispatched
    /\ UNCHANGED <<routerVars, graphVars, prunerVars, convVars, cacheVars, streamVars, retryVars>>

\* The gather of a parallel batch returns (lines 395-407): the tool messages are
\* appended in the order gather gives the results.
Gather ==
    /\ pc = "dispatch"
    /\ mode = "parallel"
    /\ \A i \in DOMAIN task : task[i].st = "done"
    /\ LET order == gather_order(Len(parsed_calls), completed) IN
       conversation' = conversation \o
           [k \in 1..Len(order) |->
               tool_message(parsed_calls[order[k]], task[order[k]].result)]
    /\ pc' = "loop_top"
    /\ UNCHANGED <<cfg, iteration, max_iter, all_tool_calls, parsed_calls, mode,
                   task, completed, response, llm_calls, approvals, consulted,
                   denied, executed, clar_asked>>
    /\ UNCHANGED <<dispatched, tool_events>>
    /\ UNCHANGED <<routerVars, graphVars, prunerVars, convVars, cacheVars, streamVars, retryVars>>

NextLoop ==
    \/ CheckCap
    \/ ContinueReturn
    \/ LLMCall
    \/ \E i \in DOMAIN task : TaskStart(i)
    \/ \E i \in DOMAIN task : PermReturn(i)
    \/ \E i \in DOMAIN task : ExecReturn(i)
    \/ Gather

Spec == InitLoop /\ [][NextLoop]_vars

----------------------------------------------------------------------------
\* Claims about BaseAgent.run and BaseAgent._execute_tool

\* The tool name requested under call id `id`
NameOfCall(id) == all_tool_calls[id].tool

\* The assistant message at index p requests a batch of N >= 2 read-only calls
ReadOnlyBatchAt(p) ==
    /\ conversation[p].role = "assistant"
    /\ Len(conversation[p].tool_calls) >= 2
    /\ \A k \in 1..Len(conversation[p].tool_calls) :
         NameOfCall(conversation[p].tool_calls[k]) \in {"file_read", "glob", "grep"}

\* C1: a batch of N >= 2 calls that are all among file_read, glob and grep is
\* dispatched concurrently: it takes the gather branch, none of its tool messages
\* is in the conversation before the gather returns, and a call whose predecessors
\* have started can start whatever the others' progress (none need have
\* completed). Once the batch is joined its N tool messages follow the assistant
\* message in request order, each with the tool_call_id of its own request,
\* whatever the completion order was.
C1_ParallelBatchInRequestOrder ==
    \A p \in 1..Len(conversation) :
      ReadOnlyBatchAt(p) =>
        LET ids == conversation[p].tool_calls IN
        IF Len(conversation) = p
        THEN pc \in {"dispatch", "raised"}
             /\ mode = "parallel"
             /\ (pc = "dispatch" =>
                   \A i \in DOMAIN task :
                     (task[i].st = "new" /\ \A j \in 1..(i - 1) : task[j].st # "new")
                        => ENABLED TaskStart(i))
        ELSE /\ Len(conversation) >= p + Len(ids)
             /\ \A k \in 1..Len(ids) :
                  /\ conversation[p + k].role = "tool"
                  /\ conversation[p + k].tool_call_id = ids[k]
                  /\ conversation[p + k].name = NameOfCall(ids[k])

\* C1 witness: a joined read-only batch whose second call completed before its
\* first, with the tool messages in request order
C1_Witness ==
    /\ pc = "loop_top"
    /\ mode = "parallel"
    /\ completed = <<2, 1>>
    /\ conversation[Len(conversation) - 1].tool_call_id = parsed_calls[1].id
    /\ conversation[Len(conversation)].tool_call_id = parsed_calls[2].id

\* C2 (as claimed): one run issues at most max_iterations * (1 + k) model calls
\* after k approvals of the continue handler, for every cap including 0
C2_ModelCallsWithinCap ==
    llm_calls <= cfg.max_iterations * (1 + approvals)

\* C4 (as claimed): run never raises, whatever collaborator fails
C4_RunNeverRaises ==
    pc # "raised"

\* C9 (as claimed): a dispatched tool that signals "needs clarification" gets the
\* handler's answer as a successful result when a clarification handler is
\* registered (the handler being asked), and the fixed "No clarification handler
\* available" failure when none is
C9_ClarificationIntercepted ==
    \A i \in DOMAIN task :
      (task[i].st = "done" /\ task[i].outcome = "clarify") =>
        IF cfg.clarification_handler
        THEN /\ task[i].result.success
             /\ task[i].result.output = <<"User answered: ", "A">>
             /\ clar_asked >= 1
        ELSE task[i].result =
               ToolResult(FALSE, <<>>,
                          "No clarification handler available to ask the user.")

\* C10: with a permission handler set, the handler is consulted before a
\* registered tool executes, in the sequential and in the parallel path: every
\* call whose execute was invoked was consulted about and not denied; a denied call
\* is never executed, its result is the failure "Operation denied by user", and
\* that is what its tool message carries.
C10_PermissionBeforeExecute ==
    cfg.permission_handler =>
      /\ executed \subseteq (consulted \ denied)
      /\ \A i \in DOMAIN task :
           /\ (task[i].st # "new" /\ parsed_calls[i].name \in Registered)
                 => parsed_calls[i].id \in consulted
           /\ parsed_calls[i].id \in denied =>
                /\ task[i].st = "done"
                /\ task[i].result =
                     ToolResult(FALSE, <<>>, "Operation denied by user")
      /\ \A p \in 1..Len(conversation) :
           (conversation[p].role = "tool" /\ conversation[p].tool_call_id \in denied)
              => conversation[p].content = <<"Error: ", "Operation denied by user">>

\* C10 witness: a parallel batch in which one call was denied and the other
\* executed, joined, the denied call's message in the conversation
C10_Witness ==
    /\ cfg.permission_handler
    /\ mode = "parallel"
    /\ pc = "loop_top"
    /\ \E i, j \in DOMAIN task :
         /\ parsed_calls[i].id \in denied
         /\ parsed_calls[i].id \notin executed
         /\ parsed_calls[j].id \in executed
    /\ \E p \in 1..Len(conversation) :
         /\ conversation[p].tool_call_id \in denied
         /\ conversation[p].content = <<"Error: ", "Operation denied by user">>

\* C16: the tool_calls_made list of every AgentResponse returned by run() has one
\* entry for each call _execute_tool was invoked for and none for any other call,
\* in the order of the dispatches, with the tool name and the parsed arguments
\* ({} when they were malformed), whether the call succeeded, failed, was denied
\* or named an unknown tool.
C16_ToolCallsMadeMatchDispatches ==
    pc = "returned" =>
        /\ Len(response.tool_calls_made) = Len(dispatched)
        /\ \A k \in 1..Len(dispatched) :
             response.tool_calls_made[k] =
                 [tool |-> dispatched[k].name, args |-> dispatched[k].args,
                  call |-> dispatched[k].id]

C16_Witness ==
    /\ pc = "returned"
    /\ Len(response.tool_calls_made) = 2
    /\ response.tool_calls_made[1].tool = "nope"
    /\ response.tool_calls_made[2].args = "{}"
    /\ response.tool_calls_made[2].call \in denied
    /\ Len(dispatched) = 2

----------------------------------------------------------------------------
\* ModelRouter.complete / ModelRouter.stream, LiteLLMProvider, with_retry

\* Bounds of the router model
MaxRetries == 1         \* RetryConfig.max_retries ranges over 0..MaxRetries
MaxChunks == 1          \* chunks one candidate's stream yields

\* config.py:50, the model of a role that has no mapping and no "default" mapping
BuiltinModel == "gpt-4o-mini"

\* LLMProvidersConfig.role_models of the setups explored
RoleModelSetups ==
    { [r \in {} |-> [model |-> "", fallback |-> ""]],
      [r \in {"coder"} |-> [model |-> "A", fallback |-> "B"]],
      [r \in {"coder", "default"} |->
          IF r = "coder" THEN [model |-> "B", fallback |-> ""]
                         ELSE [model |-> "A", fallback |-> "C"]],
      [r \in {"default"} |-> [model |-> "C", fallback |-> ""]],
      [r \in {"reviewer"} |-> [model |-> "B", fallback |-> ""]] }

\* LLMProvidersConfig.resolve_model
resolve_model(role_models, role) ==
    IF role \in DOMAIN role_models THEN role_models[role]
    ELSE IF "default" \in DOMAIN role_models THEN role_models["default"]
    ELSE [model |-> BuiltinModel, fallback |-> ""]

\* LLMProvidersConfig.resolve_fallback
resolve_fallback(role_models, role) ==
    IF resolve_model(role_models, role).fallback # ""
    THEN resolve_model(role_models, role).fallback
    ELSE IF "default" \in DOMAIN role_models /\ role_models["default"].fallback # ""
    THEN role_models["default"].fallback
    ELSE ""

InSeq(x, s) == \E k \in 1..Len(s) : s[k] = x

\* The `for fb in self._fallback_models` loop of _get_model_chain
RECURSIVE add_fallbacks(_, _)
add_fallbacks(ch, fbs) ==
    IF fbs = <<>> THEN ch
    ELSE add_fallbacks(IF InSeq(Head(fbs), ch) THEN ch ELSE Append(ch, Head(fbs)),
                       Tail(fbs))

\* ModelRouter._get_model_chain
get_model_chain(c) ==
    LET primary == IF c.model # "" THEN c.model
                   ELSE IF c.role # "" /\ DOMAIN c.role_models # {}
                        THEN resolve_model(c.role_models, c.role).model
                        ELSE c.default_model
        role_fallback == IF c.role # "" THEN resolve_fallback(c.role_models, c.role)
                         ELSE ""
        with_role == IF c.role # "" /\ role_fallback # "" /\ role_fallback # primary
                     THEN <<primary, role_fallback>> ELSE <<primary>>
    IN  add_fallbacks(with_role, c.fallback_models)

\* with_retry, lines 58-59: the retry budget of one candidate is spent
\* with_retry: `except tuple(config.retryable_exceptions)`
is_retryable_mut(outcome) == TRUE
is_retryable(outcome) == outcome = "retryable"

\* with_retry: `if attempt == config.max_retries: raise`
retry_budget_mut(attempt_, max_retries) == attempt_ > max_retries
retry_exhausted_mut(attempt_, max_retries) == attempt_ + 1 >= max_retries
retry_exhausted(attempt_, max_retries) == attempt_ = max_retries

LoopOff ==
    /\ cfg = [max_iterations |-> 0, continue_handler |-> FALSE,
              permission_handler |-> FALSE, clarification_handler |-> FALSE,
              tool_event_callback |-> FALSE]
    /\ pc = "off"
    /\ iteration = 0
    /\ max_iter = 0
    /\ conversation = <<>>
    /\ all_tool_calls = <<>>
    /\ parsed_calls = <<>>
    /\ mode = "none"
    /\ task = <<>>
    /\ completed = <<>>
    /\ response = NoResponse
    /\ llm_calls = 0
    /\ approvals = 0
    /\ consulted = {}
    /\ denied = {}
    /\ executed = {}
    /\ clar_asked = 0
    /\ dispatched = <<>>
    /\ tool_events = <<>>

InitRouter ==
    /\ r_cfg \in [call : {"complete", "stream"},
                  model : {"", "B"},
                  role : {"", "coder"},
                  role_models : RoleModelSetups,
                  default_model : {"A"},
                  fallback_models : {<<>>, <<"B">>, <<"B", "C">>, <<"C", "A", "C">>},
                  max_retries : 0..MaxRetries]
    /\ chain = get_model_chain(r_cfg)
    /\ cand = 1
    /\ attempt = 0
    /\ r_pc = "attempt"
    /\ calls_log = <<>>
    /\ sleeps = <<>>
    /\ last_error = ""
    /\ r_result = ""
    /\ yielded = <<>>
    /\ LoopOff
    /\ GraphOff
    /\ PrunerOff
    /\ ConvOff
    /\ CacheOff
    /\ StreamOff
    /\ RetryOff

\* `except Exception as e` of the router's `for candidate in chain` loop (complete:
\* lines 122-128, stream: lines 164-170): remember the failure, go on to the next
\* candidate, raise "All models failed" after the last.
Advance_abort ==
    /\ last_error' = chain[cand]
    /\ attempt' = 0
    /\ cand' = cand
    /\ r_pc' = "all_failed"
Advance_first_error ==
    /\ last_error' = IF last_error = "" THEN chain[cand] ELSE last_error
    /\ attempt' = 0
    /\ IF cand < Len(chain)
       THEN cand' = cand + 1 /\ r_pc' = "attempt"
       ELSE cand' = cand /\ r_pc' = "all_failed"
Advance ==
    /\ last_error' = chain[cand]
    /\ attempt' = 0
    /\ IF cand < Len(chain)
       THEN cand' = cand + 1 /\ r_pc' = "attempt"
       ELSE cand' = cand /\ r_pc' = "all_failed"

\* One litellm.acompletion call under with_retry, made by provider.complete or to
\* open provider.stream: it succeeds, fails with a retryable kind or fails otherwise.
Attempt ==
    /\ r_pc = "attempt"
    /\ \E outcome \in {"ok", "retryable", "permanent"} :
         /\ calls_log' = Append(calls_log, [model |-> chain[cand], outcome |-> outcome])
         /\ CASE outcome = "ok" ->
                   /\ IF r_cfg.call = "complete"
                      THEN r_pc' = "returned" /\ r_result' = chain[cand]
                      ELSE r_pc' = "streaming" /\ UNCHANGED r_result
                   /\ UNCHANGED <<cand, attempt, sleeps, last_error>>
              [] outcome # "ok" /\ is_retryable(outcome) ->
                   IF retry_exhausted(attempt, r_cfg.max_retries)
                   THEN Advance /\ UNCHANGED <<sleeps, r_result>>
                   ELSE /\ sleeps' = Append(sleeps, [model |-> chain[cand],
                                                     attempt |-> attempt])
                        /\ attempt' = attempt + 1
                        /\ UNCHANGED <<cand, r_pc, last_error, r_result>>
              [] outcome # "ok" /\ ~is_retryable(outcome) ->
                   Advance /\ UNCHANGED <<sleeps, r_result>>
    /\ UNCHANGED <<r_cfg, chain, yielded>>
    /\ UNCHANGED <<loopVars, graphVars, prunerVars, convVars, cacheVars, streamVars, retryVars>>

\* The candidate's open stream, inside the router's try: it gives a chunk, which
\* the router yields; it ends; or it fails mid-stream.
StreamStep ==
    /\ r_pc = "streaming"
    /\ \E ev \in {"chunk", "end", "fail"} :
         CASE ev = "chunk" ->
                /\ Len(SelectSeq(yielded, LAMBDA y : y.model = chain[cand])) < MaxChunks
                /\ yielded' = Append(yielded, [model |-> chain[cand]])
                /\ UNCHANGED <<cand, attempt, r_pc, last_error>>
           [] ev = "end" ->
                /\ r_pc' = "returned"
                /\ UNCHANGED <<cand, attempt, last_error, yielded>>
           [] ev = "fail" ->
                Advance /\ UNCHANGED yielded
    /\ UNCHANGED <<r_cfg, chain, calls_log, sleeps, r_result>>
    /\ UNCHANGED <<loopVars, graphVars, prunerVars, convVars, cacheVars, streamVars, retryVars>>

NextRouter ==
    \/ Attempt
    \/ StreamStep

SpecRouter == InitRouter /\ [][NextRouter]_vars

----------------------------------------------------------------------------
\* Claims about ModelRouter

\* Position of model m in the chain
ChainIndex(m) == CHOOSE k \in 1..Len(chain) : chain[k] = m

\* litellm.acompletion calls made for model m
AttemptsOn(m) == Len(SelectSeq(calls_log, LAMBDA c : c.model = m))

\* Every call made for model m failed with a retryable error
AllRetryable(m) ==
    \A k \in 1..Len(calls_log) :
      calls_log[k].model = m => calls_log[k].outcome = "retryable"

\* C3: with a chain [A, B, C] in which every attempt on A and on B fails with a
\* retryable error and C succeeds, complete returns C's response; the provider is
\* called for A, then B, then C, never for a later model before the last call for
\* an earlier one, and A and B are each called exactly max_retries + 1 times.
C3_FallbackAfterFullRetryBudget ==
    ( /\ r_cfg.call = "complete"
      /\ r_pc = "returned"
      /\ Len(chain) = 3
      /\ AllRetryable(chain[1])
      /\ AllRetryable(chain[2]) )
    =>
    /\ r_result = chain[3]
    /\ calls_log[Len(calls_log)] = [model |-> chain[3], outcome |-> "ok"]
    /\ AttemptsOn(chain[1]) = r_cfg.max_retries + 1
    /\ AttemptsOn(chain[2]) = r_cfg.max_retries + 1
    /\ \A a, b \in 1..Len(calls_log) :
         a < b => ChainIndex(calls_log[a].model) <= ChainIndex(calls_log[b].model)

\* C3 witness: C answered after A and B each used a retry budget of two calls
C3_Witness ==
    /\ r_cfg.call = "complete"
    /\ r_pc = "returned"
    /\ chain = <<"A", "B", "C">>
    /\ r_cfg.max_retries = 1
    /\ AllRetryable("A") /\ AllRetryable("B")
    /\ AttemptsOn("A") = 2 /\ AttemptsOn("B") = 2
    /\ r_result = "C"

\* C8 (as claimed): in stream(), once a chunk of a candidate has been yielded the
\* router does not move on to another candidate, and no chunk of a later
\* candidate is yielded in the same stream call
C8_NoFallbackAfterFirstChunk ==
    r_cfg.call = "stream" =>
      /\ \A a, b \in 1..Len(yielded) : yielded[a].model = yielded[b].model
      /\ yielded # <<>> => chain[cand] = yielded[1].model

\* Claims about with_retry, one invocation of it per candidate of the chain

CallsOn(m) == SelectSeq(calls_log, LAMBDA c : c.model = m)

RetryableOn(m) == Len(SelectSeq(calls_log,
                          LAMBDA c : c.model = m /\ c.outcome = "retryable"))

SleepsOn(m) == SelectSeq(sleeps, LAMBDA z : z.model = m)

\* with_retry for candidate m is still between two attempts
Retrying(m) == r_pc = "attempt" /\ chain[cand] = m

\* C14: a failure that is not of a retryable kind leaves with_retry at once: the
\* wrapped call is the last one made for that candidate and no sleep follows it
\* (the sleeps of the candidate are those of the retryable failures before it),
\* whether it is the first failure or comes after retryable ones.
C14_PermanentFailurePropagates ==
    \A k \in DOMAIN calls_log :
      calls_log[k].outcome = "permanent" =>
        LET m == calls_log[k].model IN
        /\ \A j \in DOMAIN calls_log : j > k => calls_log[j].model # m
        /\ ~Retrying(m)
        /\ Len(SleepsOn(m)) = RetryableOn(m)
        /\ Len(CallsOn(m)) = RetryableOn(m) + 1

C14_Witness ==
    /\ Len(calls_log) >= 3
    /\ calls_log[1] = [model |-> "A", outcome |-> "retryable"]
    /\ calls_log[2] = [model |-> "A", outcome |-> "permanent"]
    /\ calls_log[3].model = "B"
    /\ sleeps = << [model |-> "A", attempt |-> 0] >>

\* C15: with_retry calls the wrapped operation at most max_retries + 1 times. After
\* j <= max_retries retryable failures and a success it has made j + 1 calls and
\* j sleeps and the success is returned; when every attempt fails retryably it has
\* made max_retries + 1 calls and max_retries sleeps and the failure is raised to
\* the caller (max_retries = 0: one call, no sleep).
C15_RetryBudget ==
    \A m \in {chain[k] : k \in DOMAIN chain} :
      LET calls == CallsOn(m)
          n == Len(calls)
          j == RetryableOn(m)
      IN  /\ n <= r_cfg.max_retries + 1
          /\ \A k \in 1..Len(SleepsOn(m)) : SleepsOn(m)[k].attempt = k - 1
          /\ (n > 0 /\ calls[n].outcome = "ok") =>
               /\ n = j + 1
               /\ j <= r_cfg.max_retries
               /\ Len(SleepsOn(m)) = j
               /\ ~Retrying(m)
               /\ r_cfg.call = "complete" => (r_pc = "returned" /\ r_result = m)
          /\ (n > 0 /\ j = n /\ ~Retrying(m)) =>
               /\ n = r_cfg.max_retries + 1
               /\ Len(SleepsOn(m)) = r_cfg.max_retries
               /\ \/ cand > ChainIndex(m)
                  \/ (r_pc = "all_failed" /\ last_error = m)
          /\ Retrying(m) =>
               /\ j = n
               /\ n = attempt
               /\ Len(SleepsOn(m)) = n

C15_Witness ==
    /\ r_cfg.max_retries = 1
    /\ r_cfg.call = "complete"
    /\ calls_log = << [model |-> "A", outcome |-> "retryable"],
                      [model |-> "A", outcome |-> "ok"] >>
    /\ sleeps = << [model |-> "A", attempt |-> 0] >>
    /\ r_result = "A"

----------------------------------------------------------------------------
\* GraphOrchestrator (agents/graph.py): one handle() through the compiled graph.
\* The modelled orchestrator has no context retriever attached and an empty
\* conversation history (the state after construction).

\* Bound of the workflow model
MaxReview == 2          \* max_review_iterations ranges over 0..MaxReview

\* Texts are sequences of tokens (words and separators), so that strip, upper,
\* startswith and the substring scan are computed and not assumed.
Whitespace == {" ", "\n"}

RECURSIVE lstrip(_)
lstrip(t) ==
    IF t # <<>> /\ Head(t) \in Whitespace THEN lstrip(Tail(t)) ELSE t

RECURSIVE rstrip(_)
rstrip(t) ==
    IF t # <<>> /\ t[Len(t)] \in Whitespace
    THEN rstrip(SubSeq(t, 1, Len(t) - 1)) ELSE t

\* str.strip()
strip(t) == rstrip(lstrip(t))

\* str.upper() on one token
upper_token(w) ==
    CASE w = "high" -> "HIGH"
      [] w = "critical" -> "CRITICAL"
      [] w = "highlight" -> "HIGHLIGHT"
      [] w = "nit" -> "NIT"
      [] w = "bug" -> "BUG"
      [] OTHER -> w

upper(t) == [k \in DOMAIN t |-> upper_token(t[k])]

\* `lit in text`: the literal occurs inside some token
has_substring(w, lit) ==
    \/ w = lit
    \/ w = "HIGHLIGHT" /\ lit = "HIGH"

contains(t, lit) == \E k \in DOMAIN t : has_substring(t[k], lit)

\* str.startswith
startswith(t, lit) == t # <<>> /\ Head(t) = lit

\* What the reviewer may answer
ReviewTexts ==
    { <<"NO_ISSUES_FOUND">>,
      <<" ", "NO_ISSUES_FOUND", "CRITICAL">>,
      <<"CRITICAL", "bug">>,
      <<"high", "bug">>,
      <<"highlight">>,
      <<"nit">>,
      <<>> }

\* What the clarification handler may answer to "Approve this plan?"
ApprovalAnswers == {"Approve", "Reject", " yes ", "N", "", "Edit", "use sqlite"}

\* answer.strip().lower()
strip_lower(a) ==
    CASE a = "Approve" -> "approve"
      [] a = "Reject" -> "reject"
      [] a = " yes " -> "yes"
      [] a = "N" -> "n"
      [] a = "Edit" -> "edit"
      [] OTHER -> a

\* The content of the selected agent's n-th run
PassText(n) ==
    IF n = 1 THEN "coder pass 1"
    ELSE IF n = 2 THEN "coder pass 2"
    ELSE IF n = 3 THEN "coder pass 3"
    ELSE "coder later pass"

\* handle(): the separator between the response and the appended review
ReviewSection == <<"\n\n---\n**Auto-Review:**\n">>

write_tools == {"file_write", "file_edit"}

has_tool_calls(resp) == resp.tool_calls_made # <<>>

has_writes_mut(resp) == TRUE
has_writes(resp) ==
    \E k \in DOMAIN resp.tool_calls_made : resp.tool_calls_made[k].tool \in write_tools

\* `f"{a}\n\n{existing}" if existing else a`
merge_context(a, existing) ==
    IF existing # <<>> THEN a \o <<"\n\n">> \o existing ELSE a

\* _needs_planning
needs_planning(c, s) ==
    IF /\ c.auto_plan
       /\ s.needs_planning
       /\ s.selected_agent = "coder"
       /\ "planner" \in c.agents
    THEN "plan" ELSE "skip"

\* _plan_approved
plan_approved_mut(s) == "approved"
plan_approved(s) == IF s.plan_approved THEN "approved" ELSE "rejected"

\* _should_review
should_review_mut(s) ==
    IF s.needs_review /\ s.agent_response # NoResponse THEN "review" ELSE "skip"
should_review(s) ==
    IF /\ s.needs_review
       /\ s.agent_response # NoResponse
       /\ has_tool_calls(s.agent_response)
    THEN "review" ELSE "skip"

\* _should_fix
should_fix_cased(c, s) ==
    IF \/ s.review_response = NoResponse
       \/ s.review_iteration >= c.max_review_iterations
    THEN "done"
    ELSE IF startswith(strip(s.review_response.content), "NO_ISSUES_FOUND")
         THEN "done"
         ELSE IF \/ contains(strip(s.review_response.content), "CRITICAL")
                 \/ contains(strip(s.review_response.content), "HIGH")
              THEN "fix" ELSE "done"
should_fix_uncapped(c, s) ==
    IF s.review_response = NoResponse THEN "done"
    ELSE IF startswith(strip(s.review_response.content), "NO_ISSUES_FOUND")
         THEN "done"
         ELSE IF \/ contains(upper(strip(s.review_response.content)), "CRITICAL")
                 \/ contains(upper(strip(s.review_response.content)), "HIGH")
              THEN "fix" ELSE "done"
should_fix(c, s) ==
    IF \/ s.review_response = NoResponse
       \/ s.review_iteration >= c.max_review_iterations
    THEN "done"
    ELSE IF startswith(strip(s.review_response.content), "NO_ISSUES_FOUND")
         THEN "done"
         ELSE IF \/ contains(upper(strip(s.review_response.content)), "CRITICAL")
                 \/ contains(upper(strip(s.review_response.content)), "HIGH")
              THEN "fix" ELSE "done"

\* handle(): the returned response, with the review appended if there is one
final_response_mut(s) ==
    IF s.agent_response # NoResponse THEN s.agent_response
    ELSE AgentResponse(<<"No response generated.">>, <<>>, 0)
final_response(s) ==
    LET resp == IF s.agent_response # NoResponse THEN s.agent_response
                ELSE AgentResponse(<<"No response generated.">>, <<>>, 0)
    IN  IF s.review_response # NoResponse /\ s.review_response.content # <<>>
        THEN AgentResponse(resp.content \o ReviewSection \o s.review_response.content,
                           resp.tool_calls_made, resp.iterations)
        ELSE resp

\* handle(): initial_state
initial_state(agent_name, context) ==
    [ context |-> context,
      selected_agent |-> agent_name,
      agent_response |-> NoResponse,
      needs_review |-> FALSE,
      review_response |-> NoResponse,
      error |-> "",
      clarification_context |-> <<>>,
      needs_planning |-> FALSE,
      plan_response |-> NoResponse,
      plan_approved |-> FALSE,
      review_iteration |-> 0 ]

AgentSets ==
    { {"coder"}, {"coder", "planner"}, {"coder", "reviewer"},
      {"coder", "planner", "reviewer"} }

\* handle(): the state in which ainvoke starts
handle_start ==
    /\ node = "pre_analyze"
    /\ st = initial_state(g_cfg.agent_name, g_cfg.context)
    /\ trace = <<>>
    /\ runs = [planner |-> 0, agent |-> 0, reviewer |-> 0, router |-> 0]
    /\ coder_log = <<>>
    /\ review_log = <<>>
    /\ approval = "<not asked>"
    /\ memory = [calls |-> 0, added |-> 0]
    /\ routed = [needs_review |-> FALSE, needs_planning |-> FALSE]
    /\ agent_sinks = {}
    /\ sink_runs = {}
    /\ handles = 1
    /\ reviewed_run = 0
    /\ g_response = NoResponse
    /\ LoopOff
    /\ RouterOff
    /\ PrunerOff
    /\ ConvOff
    /\ CacheOff
    /\ StreamOff
    /\ RetryOff

InitGraph ==
    /\ g_cfg \in [ auto_review : BOOLEAN,
                   auto_plan : BOOLEAN,
                   max_review_iterations : 0..MaxReview,
                   agents : AgentSets,
                   default_agent : {"coder"},
                   clarification_handler : BOOLEAN,
                   clarification_mgr : BOOLEAN,
                   memory_store : BOOLEAN,
                   agent_name : {"", "reviewer", "ghost"},
                   context : {<<>>, <<"ctx">>} ]
    /\ handle_start

\* Orchestrators built with another default agent than "coder" (session.py
\* hands in config.agents.default), auto-review on and one review iteration
InitGraphDefaults ==
    /\ g_cfg \in [ auto_review : {TRUE},
                   auto_plan : BOOLEAN,
                   max_review_iterations : {MaxReview - 1},
                   agents : AgentSets,
                   default_agent : {"coder", "reviewer"},
                   clarification_handler : BOOLEAN,
                   clarification_mgr : {FALSE},
                   memory_store : {TRUE},
                   agent_name : {"", "reviewer"},
                   context : {<<>>} ]
    /\ handle_start

\* One graph node has run: the node joins the trace and the edge is taken
step(name, state, next_node) ==
    /\ trace' = Append(trace, name)
    /\ st' = state
    /\ node' = next_node

\* An exception leaves the node: ainvoke and handle() raise
node_raises(name) ==
    /\ trace' = Append(trace, name)
    /\ node' = "raised"
    /\ UNCHANGED st

\* _pre_analyze_node, then the edge to route
PreAnalyze ==
    /\ node = "pre_analyze"
    /\ IF ~g_cfg.clarification_mgr \/ ~g_cfg.clarification_handler
       THEN step("pre_analyze", st, "route")
       ELSE \E outcome \in {"analysis_raises", "no_questions", "answered",
                            "handler_raises"} :
              CASE outcome \in {"analysis_raises", "no_questions"} ->
                     step("pre_analyze", st, "route")
                [] outcome = "handler_raises" ->
                     node_raises("pre_analyze")
                [] outcome = "answered" ->
                     LET clarification_text ==
                             <<"## User Clarifications\n", "- question: answer">>
                     IN  step("pre_analyze",
                              [st EXCEPT
                                 !.context = merge_context(clarification_text, @),
                                 !.clarification_context = clarification_text],
                              "route")
    /\ UNCHANGED <<g_cfg, routed, runs, coder_log, review_log, approval, memory, g_response>>
    /\ UNCHANGED <<agent_sinks, sink_runs, handles, reviewed_run>>
    /\ UNCHANGED <<loopVars, routerVars, prunerVars, convVars, cacheVars, streamVars, retryVars>>

\* _route_node: `if state.get("selected_agent"): return state`
agent_preselected_mut(s) == FALSE
agent_preselected(s) == s.selected_agent # ""

\* _route_node: `"needs_review": needs_review and self._auto_review`
route_needs_review_mut(c, reply) == reply.needs_review
route_needs_review(c, reply) == reply.needs_review /\ c.auto_review

\* What the routing model may reply: a JSON object, or text that is not JSON and
\* mentions (or not) an agent name
RouterReplies ==
    [json : {TRUE}, agent : {"coder", "reviewer", "ghost"},
     needs_review : BOOLEAN, needs_planning : BOOLEAN]
    \cup [json : {FALSE}, agent : {"reviewer", "ghost"},
          needs_review : {FALSE}, needs_planning : {FALSE}]

\* _route_node, then the edge to plan_gate
Route ==
    /\ node = "route"
    /\ IF agent_preselected(st)
       THEN /\ step("route", st, "plan_gate")
            /\ UNCHANGED <<runs, routed>>
       ELSE IF Cardinality(g_cfg.agents) <= 1
       THEN /\ step("route",
                    [st EXCEPT !.selected_agent = g_cfg.default_agent,
                               !.needs_review = FALSE],
                    "plan_gate")
            /\ UNCHANGED <<runs, routed>>
       ELSE /\ runs' = [runs EXCEPT !.router = @ + 1]
            /\ \/ /\ node_raises("route")
                  /\ UNCHANGED routed
               \/ \E reply \in RouterReplies :
                    LET named == IF reply.json \/ reply.agent \in g_cfg.agents
                                 THEN reply.agent ELSE g_cfg.default_agent
                        agent_name == IF named \in g_cfg.agents
                                      THEN named ELSE g_cfg.default_agent
                    IN  /\ routed' = [needs_review |-> reply.needs_review,
                                      needs_planning |-> reply.needs_planning]
                        /\ step("route",
                                [st EXCEPT
                                   !.selected_agent = agent_name,
                                   !.needs_review = route_needs_review(g_cfg, reply),
                                   !.needs_planning = reply.needs_planning],
                                "plan_gate")
    /\ UNCHANGED <<g_cfg, coder_log, review_log, approval, memory, g_response>>
    /\ UNCHANGED <<agent_sinks, sink_runs, handles, reviewed_run>>
    /\ UNCHANGED <<loopVars, routerVars, prunerVars, convVars, cacheVars, streamVars, retryVars>>

\* _plan_gate_node, then the conditional edge _needs_planning
PlanGate ==
    /\ node = "plan_gate"
    /\ step("plan_gate", st,
            IF needs_planning(g_cfg, st) = "plan" THEN "execute_planner"
            ELSE "execute_agent")
    /\ UNCHANGED <<g_cfg, routed, runs, coder_log, review_log, approval, memory, g_response>>
    /\ UNCHANGED <<agent_sinks, sink_runs, handles, reviewed_run>>
    /\ UNCHANGED <<loopVars, routerVars, prunerVars, convVars, cacheVars, streamVars, retryVars>>

\* _execute_planner_node, then the edge to approve_plan
ExecutePlanner ==
    /\ node = "execute_planner"
    /\ IF "planner" \notin g_cfg.agents
       THEN /\ step("execute_planner",
                    [st EXCEPT !.plan_response = NoResponse, !.plan_approved = TRUE],
                    "approve_plan")
            /\ UNCHANGED <<runs, agent_sinks, sink_runs>>
       ELSE /\ runs' = [runs EXCEPT !.planner = @ + 1]
            /\ agent_sinks' = agent_sinks \cup {"planner"}
            /\ sink_runs' = sink_runs \cup {"execute_planner"}
            /\ \E outcome \in {"raise", "plan", "plan_read"} :
                 IF outcome = "raise"
                 THEN step("execute_planner",
                           [st EXCEPT !.plan_response = NoResponse,
                                      !.plan_approved = TRUE],
                           "approve_plan")
                 ELSE step("execute_planner",
                           [st EXCEPT !.plan_response =
                               AgentResponse(<<"the plan">>,
                                   IF outcome = "plan_read"
                                   THEN <<[tool |-> "file_read"]>> ELSE <<>>,
                                   1)],
                           "approve_plan")
    /\ UNCHANGED <<g_cfg, routed, coder_log, review_log, approval, memory, g_response>>
    /\ UNCHANGED <<handles, reviewed_run>>
    /\ UNCHANGED <<loopVars, routerVars, prunerVars, convVars, cacheVars, streamVars, retryVars>>

\* _approve_plan_node from the handler's answer on
approve_plan_answer_strict(s, answer) ==
    LET answer_lower == strip_lower(answer)
    IN  IF answer_lower \in {"approve", "y", "yes", ""}
        THEN [s EXCEPT !.plan_approved = TRUE,
                       !.context = merge_context(
                           <<"## Implementation Plan (approved)\n">>
                               \o s.plan_response.content, @)]
        ELSE [s EXCEPT !.plan_approved = FALSE,
                       !.agent_response = s.plan_response]
approve_plan_answer(s, answer) ==
    LET answer_lower == strip_lower(answer)
    IN  IF answer_lower \in {"approve", "y", "yes", ""}
        THEN [s EXCEPT !.plan_approved = TRUE,
                       !.context = merge_context(
                           <<"## Implementation Plan (approved)\n">>
                               \o s.plan_response.content, @)]
        ELSE IF answer_lower \in {"reject", "n", "no"}
        THEN [s EXCEPT !.plan_approved = FALSE,
                       !.agent_response = s.plan_response]
        ELSE [s EXCEPT !.plan_approved = TRUE,
                       !.context = merge_context(
                           <<"## Implementation Plan (edited by user)\n">>
                               \o s.plan_response.content
                               \o <<"\n\n", "## User Edits\n", answer>>, @)]

\* _approve_plan_node, then the conditional edge _plan_approved
ApprovePlan ==
    /\ node = "approve_plan"
    /\ IF st.plan_response = NoResponse \/ ~g_cfg.clarification_handler
       THEN LET s == [st EXCEPT !.plan_approved = TRUE]
            IN  /\ step("approve_plan", s,
                        IF plan_approved(s) = "approved" THEN "execute_agent"
                        ELSE "finalize")
                /\ UNCHANGED approval
       ELSE \E answer \in ApprovalAnswers \cup {"<raise>"} :
              LET s == IF answer = "<raise>"
                       THEN [st EXCEPT !.plan_approved = TRUE]
                       ELSE approve_plan_answer(st, answer)
              IN  /\ approval' = answer
                  /\ step("approve_plan", s,
                          IF plan_approved(s) = "approved" THEN "execute_agent"
                          ELSE "finalize")
    /\ UNCHANGED <<g_cfg, routed, runs, coder_log, review_log, memory, g_response>>
    /\ UNCHANGED <<agent_sinks, sink_runs, handles, reviewed_run>>
    /\ UNCHANGED <<loopVars, routerVars, prunerVars, convVars, cacheVars, streamVars, retryVars>>

\* _execute_agent_node: the context handed to agent.run
agent_context(s) ==
    LET base == s.context
        planned ==
            IF /\ s.plan_response # NoResponse
               /\ \E k \in DOMAIN s.plan_response.tool_calls_made :
                      s.plan_response.tool_calls_made[k].tool
                          \in {"file_read", "grep", "glob"}
            THEN <<"## Planner Exploration Results\n", "\n\n">> \o base
            ELSE base
    IN  IF s.review_iteration > 0 /\ s.review_response # NoResponse
        THEN <<"## Review Feedback (fix these issues)\n">>
                 \o s.review_response.content
                 \o <<"\n\n", "Fix the CRITICAL and HIGH issues identified above.",
                      "\n\n">>
                 \o planned
        ELSE planned

\* _execute_agent_node: the message handed to agent.run
agent_message(s) ==
    IF s.review_iteration > 0 /\ s.review_response # NoResponse
    THEN <<"user message", "\n\n", "[REVIEW FEEDBACK - fix these issues]\n">>
             \o s.review_response.content
    ELSE <<"user message">>

\* _execute_agent_node, then the conditional edge _should_review
ExecuteAgent ==
    /\ node = "execute_agent"
    /\ IF st.selected_agent \notin g_cfg.agents
       THEN LET s == [st EXCEPT
                        !.agent_response =
                            AgentResponse(<<"Agent '", st.selected_agent, "' not found.">>,
                                          <<>>, 0),
                        !.error = "not found"]
            IN  /\ step("execute_agent", s,
                        IF should_review(s) = "review" THEN "auto_review"
                        ELSE "finalize")
                /\ UNCHANGED <<runs, coder_log, agent_sinks, sink_runs>>
       ELSE \E outcome \in {"raise", "no_tools", "read", "write"} :
              LET n == runs.agent + 1
                  resp ==
                      CASE outcome = "raise" ->
                             AgentResponse(<<"Agent error: ", "boom">>, <<>>, 0)
                        [] outcome = "no_tools" ->
                             AgentResponse(<<PassText(n)>>, <<>>, 1)
                        [] outcome = "read" ->
                             AgentResponse(<<PassText(n)>>, <<[tool |-> "file_read"]>>, 2)
                        [] outcome = "write" ->
                             AgentResponse(<<PassText(n)>>, <<[tool |-> "file_write"]>>, 2)
                  s == [st EXCEPT !.agent_response = resp,
                                  !.error = IF outcome = "raise" THEN "boom" ELSE ""]
              IN  /\ runs' = [runs EXCEPT !.agent = n]
                  /\ agent_sinks' = agent_sinks \cup {st.selected_agent}
                  /\ sink_runs' = sink_runs \cup {"execute_agent"}
                  /\ coder_log' = Append(coder_log,
                         [outcome |-> outcome, content |-> resp.content,
                          message |-> agent_message(st),
                          context |-> agent_context(st)])
                  /\ step("execute_agent", s,
                          IF should_review(s) = "review" THEN "auto_review"
                          ELSE "finalize")
    /\ UNCHANGED <<g_cfg, routed, review_log, approval, memory, g_response>>
    /\ UNCHANGED <<handles, reviewed_run>>
    /\ UNCHANGED <<loopVars, routerVars, prunerVars, convVars, cacheVars, streamVars, retryVars>>

\* _auto_review_node: `review_iter = state.get("review_iteration", 0) + 1`
next_review_iteration_mut(s) == 1
next_review_iteration(s) == s.review_iteration + 1

\* _auto_review_node sets the status, permission and token callbacks of the
\* reviewer and leaves its _stream_callback as it is (lines 517-520)
reviewer_has_sink(sinks) == "reviewer" \in sinks

\* _auto_review_node, then the conditional edge _should_fix
AutoReview ==
    /\ node = "auto_review"
    /\ LET review_iter == next_review_iteration(st)
           unreviewed == [st EXCEPT !.review_iteration = review_iter]
       IN  IF "reviewer" \notin g_cfg.agents \/ st.agent_response = NoResponse
           THEN /\ step("auto_review", unreviewed,
                        IF should_fix(g_cfg, unreviewed) = "fix" THEN "execute_agent"
                        ELSE "finalize")
                /\ UNCHANGED <<runs, review_log, sink_runs, reviewed_run>>
           ELSE /\ runs' = [runs EXCEPT !.reviewer = @ + 1]
                /\ sink_runs' = IF reviewer_has_sink(agent_sinks)
                                THEN sink_runs \cup {"auto_review"}
                                ELSE sink_runs
                /\ \/ /\ step("auto_review", unreviewed,
                              IF should_fix(g_cfg, unreviewed) = "fix"
                              THEN "execute_agent" ELSE "finalize")
                      /\ UNCHANGED <<review_log, reviewed_run>>
                   \/ \E text \in ReviewTexts :
                        LET s == [unreviewed EXCEPT
                                    !.review_response = AgentResponse(text, <<>>, 1)]
                        IN  /\ review_log' = Append(review_log, text)
                            /\ reviewed_run' = runs.agent
                            /\ step("auto_review", s,
                                    IF should_fix(g_cfg, s) = "fix"
                                    THEN "execute_agent" ELSE "finalize")
    /\ UNCHANGED <<g_cfg, routed, coder_log, approval, memory, g_response>>
    /\ UNCHANGED <<agent_sinks, handles>>
    /\ UNCHANGED <<loopVars, routerVars, prunerVars, convVars, cacheVars, streamVars, retryVars>>

\* _finalize_node (with _extract_memory), then the edge to END
Finalize ==
    /\ node = "finalize"
    /\ step("finalize", st, "end")
    /\ IF /\ g_cfg.memory_store
          /\ st.agent_response # NoResponse
          /\ has_tool_calls(st.agent_response)
          /\ has_writes(st.agent_response)
       THEN \E outcome \in {"raise", "no_entries", "one_entry"} :
              memory' = [calls |-> memory.calls + 1,
                         added |-> IF outcome = "one_entry" THEN memory.added + 1
                                   ELSE memory.added]
       ELSE UNCHANGED memory
    /\ UNCHANGED <<g_cfg, routed, runs, coder_log, review_log, approval, g_response>>
    /\ UNCHANGED <<agent_sinks, sink_runs, handles, reviewed_run>>
    /\ UNCHANGED <<loopVars, routerVars, prunerVars, convVars, cacheVars, streamVars, retryVars>>

\* handle() after ainvoke: the response is assembled and returned
HandleReturn ==
    /\ node = "end"
    /\ g_response' = final_response(st)
    /\ node' = "returned"
    /\ UNCHANGED <<g_cfg, routed, st, trace, runs, coder_log, review_log, approval, memory>>
    /\ UNCHANGED <<agent_sinks, sink_runs, handles, reviewed_run>>
    /\ UNCHANGED <<loopVars, routerVars, prunerVars, convVars, cacheVars, streamVars, retryVars>>

NextGraph ==
    \/ PreAnalyze
    \/ Route
    \/ PlanGate
    \/ ExecutePlanner
    \/ ApprovePlan
    \/ ExecuteAgent
    \/ AutoReview
    \/ Finalize
    \/ HandleReturn

SpecGraph == InitGraph /\ [][NextGraph]_vars

SpecGraphDefaults == InitGraphDefaults /\ [][NextGraph]_vars

\* The orchestrators whose termination is checked: with a memory store (finalize
\* then runs the extraction too), with the clarification manager that session.py
\* always attaches, and no context handed to handle(); the context is only ever
\* copied into messages
InitGraphLive ==
    /\ InitGraph
    /\ g_cfg.memory_store
    /\ g_cfg.clarification_mgr
    /\ g_cfg.context = <<>>

\* ainvoke runs the node an edge leads to as soon as the node before it has
\* returned: a handle() that can take a step takes one
SpecGraphLive == InitGraphLive /\ [][NextGraph]_vars /\ WF_vars(NextGraph)

----------------------------------------------------------------------------
\* Claims about the workflow graph

Visited(name) == \E k \in DOMAIN trace : trace[k] = name

\* The review-fix scenario has played out: handle() returned, the cap is 2, the
\* router flagged the message for review, every run of the selected agent made a
\* tool call, the reviewer's first text contains "CRITICAL" and its second text
\* starts with "NO_ISSUES_FOUND"
ReviewFixScenario ==
    /\ node = "returned"
    /\ g_cfg.auto_review
    /\ g_cfg.max_review_iterations = 2
    /\ runs.router = 1
    /\ st.needs_review
    /\ \A k \in DOMAIN coder_log : coder_log[k].outcome \in {"read", "write"}
    /\ Len(review_log) >= 2
    /\ contains(review_log[1], "CRITICAL")
    /\ startswith(review_log[2], "NO_ISSUES_FOUND")

\* C5: in the review-fix scenario (auto-review on, needs_review flagged by the
\* router, max_review_iterations = 2, the coder makes a tool call on each pass,
\* the reviewer answers text containing "CRITICAL" on pass 1 and text starting with
\* "NO_ISSUES_FOUND" on pass 2) one handle() runs the coder exactly twice and the
\* reviewer exactly twice, ends with review_iteration = 2 and returns the coder's
\* pass-2 content with the pass-2 review appended.
C5_ReviewFixScenario ==
    ReviewFixScenario =>
        /\ runs.agent = 2
        /\ Len(coder_log) = 2
        /\ runs.reviewer = 2
        /\ Len(review_log) = 2
        /\ st.review_iteration = 2
        /\ g_response.content = coder_log[2].content \o ReviewSection \o review_log[2]
        /\ coder_log[2].content = <<PassText(2)>>

C5_Witness ==
    /\ ReviewFixScenario
    /\ review_log = << <<"CRITICAL", "bug">>, <<"NO_ISSUES_FOUND">> >>
    /\ g_response.content =
           <<"coder pass 2">> \o ReviewSection \o <<"NO_ISSUES_FOUND">>

\* C6: whenever the planner branch was taken and the clarification handler
\* answered "Reject" to the plan-approval question, approve_plan is followed
\* directly by finalize, the selected agent and the reviewer are never run in
\* that handle(), and the returned content is exactly the planner's output.
C6_PlanRejection ==
    approval = "Reject" =>
        /\ Visited("execute_planner")
        /\ runs.agent = 0
        /\ runs.reviewer = 0
        /\ ~Visited("execute_agent")
        /\ ~Visited("auto_review")
        /\ node \in {"finalize", "end", "returned"}
        /\ \A k \in DOMAIN trace :
             (trace[k] = "approve_plan" /\ k < Len(trace)) => trace[k + 1] = "finalize"
        /\ node = "returned" =>
             /\ g_response.content = st.plan_response.content
             /\ g_response.content = <<"the plan">>

C6_Witness ==
    /\ approval = "Reject"
    /\ node = "returned"
    /\ runs.planner = 1
    /\ g_response.content = <<"the plan">>

\* The full-pipeline scenario has played out: handle() returned, the router named
\* coder with needs_planning and needs_review, auto-plan and auto-review are on,
\* the planner returned a plan, the handler answered "Approve", the coder made
\* one write-tool call and the reviewer's first text starts with "NO_ISSUES_FOUND"
FullPipelineScenario ==
    /\ node = "returned"
    /\ g_cfg.auto_plan
    /\ g_cfg.auto_review
    /\ runs.router = 1
    /\ st.selected_agent = "coder"
    /\ st.needs_planning
    /\ st.needs_review
    /\ st.plan_response # NoResponse
    /\ approval = "Approve"
    /\ coder_log # <<>>
    /\ coder_log[1].outcome = "write"
    /\ review_log # <<>>
    /\ startswith(review_log[1], "NO_ISSUES_FOUND")

\* C7: in the full-pipeline scenario the nodes run in the order pre_analyze,
\* route, plan_gate, execute_planner, approve_plan, execute_agent, auto_review,
\* finalize; the planner, the coder and the reviewer each run exactly once; and
\* the returned content is the coder's text followed by the review section.
C7_FullPipeline ==
    FullPipelineScenario =>
        /\ trace = <<"pre_analyze", "route", "plan_gate", "execute_planner",
                     "approve_plan", "execute_agent", "auto_review", "finalize">>
        /\ runs.planner = 1
        /\ runs.agent = 1
        /\ runs.reviewer = 1
        /\ g_response.content = coder_log[1].content \o ReviewSection \o review_log[1]
        /\ coder_log[1].content = <<PassText(1)>>

C7_Witness ==
    /\ FullPipelineScenario
    /\ g_response.content =
           <<"coder pass 1">> \o ReviewSection \o <<"NO_ISSUES_FOUND">>

----------------------------------------------------------------------------
\* prune_conversation (core/conversation_pruner.py)
\*
\* A content string is kept as the lengths of its lines (it has one line more than
\* it has "\n"), with a tag telling a text as written from a summary line and from
\* a trimmed text: character counts, line counts, first lines and prefixes are
\* then computed as the code computes them.

\* Bounds of the pruner model
MaxMsgs == 4            \* messages in the conversation handed to prune_conversation
MaxKeep == 2            \* keep_recent_exchanges ranges over 0..MaxKeep

Text(form, lines) == [form |-> form, lines |-> lines]

RECURSIVE sum_seq(_)
sum_seq(q) == IF q = <<>> THEN 0 ELSE Head(q) + sum_seq(Tail(q))

\* len(content)
char_len(content) == sum_seq(content.lines) + Len(content.lines) - 1

\* content.count("\n") + 1
line_count(content) == Len(content.lines)

min_of(a, b) == IF a <= b THEN a ELSE b

\* len(str(n))
RECURSIVE digits(_)
digits(n) == IF n < 10 THEN 1 ELSE 1 + digits(n \div 10)

\* len(name)
name_len(name) ==
    CASE name = "file_read" -> 9
      [] name = "grep" -> 4
      [] name = "tool" -> 4
      [] OTHER -> 0

\* lines[:n] of a text given by its line lengths: a "\n" takes one character
RECURSIVE take_chars(_, _)
take_chars(lines, n) ==
    IF Len(lines) = 1 \/ Head(lines) >= n
    THEN <<min_of(Head(lines), n)>>
    ELSE <<Head(lines)>> \o take_chars(Tail(lines), n - Head(lines) - 1)

\* sum(len(m.content) for m in messages)
RECURSIVE total_chars(_)
total_chars(messages) ==
    IF messages = <<>> THEN 0
    ELSE char_len(Head(messages).content) + total_chars(Tail(messages))

\* _summarize_tool_message: f"[{tool_name}: {line_count} lines | {first_line}...]"
summarize_tool_message(msg) ==
    LET tool_name == IF msg.name # "" THEN msg.name ELSE "tool"
        first_line == min_of(Head(msg.content.lines), 80)
        summary == 1 + name_len(tool_name) + 2 + digits(line_count(msg.content))
                   + 9 + first_line + 4
    IN  Message(msg.role, Text("summary", <<summary>>), <<>>, msg.tool_call_id, msg.name)

\* _trim_assistant_message: content[:200] + "... (trimmed)"
trim_assistant_message(msg) ==
    IF char_len(msg.content) <= 200 THEN msg
    ELSE LET head == take_chars(msg.content.lines, 200)
             trimmed == [head EXCEPT ![Len(head)] = @ + 13]
         IN  Message(msg.role, Text("trimmed", trimmed), msg.tool_calls,
                     msg.tool_call_id, msg.name)

\* _find_keep_boundary: the backward walk `for i in range(len(messages) - 1, 0, -1)`,
\* at index i (counted from 0) with assistant_count assistants seen so far
RECURSIVE keep_boundary_walk(_, _, _, _)
keep_boundary_walk(messages, keep_recent_exchanges, i, assistant_count) ==
    IF i <= 0 THEN 1
    ELSE IF messages[i + 1].role = "assistant"
         THEN IF assistant_count + 1 >= keep_recent_exchanges THEN i
              ELSE keep_boundary_walk(messages, keep_recent_exchanges, i - 1,
                                      assistant_count + 1)
         ELSE keep_boundary_walk(messages, keep_recent_exchanges, i - 1,
                                 assistant_count)

\* _find_keep_boundary (an index counted from 0)
find_keep_boundary_mut(messages, keep_recent_exchanges) ==
    keep_boundary_walk(messages, 1, Len(messages) - 1, 0)
find_keep_boundary(messages, keep_recent_exchanges) ==
    keep_boundary_walk(messages, keep_recent_exchanges, Len(messages) - 1, 0)

\* The body of `for i, msg in enumerate(messages)` (i counted from 0)
prune_message_mut(i, boundary, msg) ==
    IF i >= boundary THEN msg
    ELSE IF msg.role = "tool" THEN summarize_tool_message(msg)
    ELSE IF msg.role = "assistant" THEN trim_assistant_message(msg)
    ELSE msg
prune_message(i, boundary, msg) ==
    IF i = 0 THEN msg
    ELSE IF i >= boundary THEN msg
    ELSE IF msg.role = "tool" THEN summarize_tool_message(msg)
    ELSE IF msg.role = "assistant" THEN trim_assistant_message(msg)
    ELSE msg

\* prune_conversation
prune_conversation_mut(messages, max_chars, keep_recent_exchanges) ==
    IF messages = <<>> THEN <<>>
    ELSE IF total_chars(messages) <= max_chars THEN messages
    ELSE LET boundary == find_keep_boundary(messages, keep_recent_exchanges)
         IN  <<messages[1]>> \o SubSeq(messages, boundary + 1, Len(messages))
prune_conversation(messages, max_chars, keep_recent_exchanges) ==
    IF messages = <<>> THEN <<>>
    ELSE IF total_chars(messages) <= max_chars THEN messages
    ELSE LET boundary == find_keep_boundary(messages, keep_recent_exchanges)
         IN  [p \in 1..Len(messages) |-> prune_message(p - 1, boundary, messages[p])]

\* Contents of the messages handed in: short, one long line, a long first line
\* followed by a short one
PruneTexts == { Text("raw", <<3>>), Text("raw", <<250>>), Text("raw", <<90, 10>>) }

\* The first message, and the messages after it
FirstMessages ==
    { Message(role, content, <<>>, "", "") :
        role \in {"system", "assistant"}, content \in PruneTexts }
LaterMessages ==
    { Message(role, content, <<>>, "", "") :
        role \in {"user", "assistant"}, content \in PruneTexts }
    \cup { Message("tool", content, <<>>, "call", "file_read") : content \in PruneTexts }

PruneBudgets == {0, 260, 1000}

RECURSIVE Conversations(_)
Conversations(n) ==
    IF n = 1 THEN { <<m>> : m \in FirstMessages }
    ELSE LET shorter == Conversations(n - 1)
         IN  shorter \cup { Append(c, m) : c \in { x \in shorter : Len(x) = n - 1 },
                                          m \in LaterMessages }

InitPruner ==
    /\ p_in \in [ messages : Conversations(MaxMsgs),
                  max_chars : PruneBudgets,
                  keep_recent_exchanges : 0..MaxKeep ]
    /\ p_out = <<>>
    /\ p_pc = "input"
    /\ LoopOff
    /\ RouterOff
    /\ GraphOff
    /\ ConvOff
    /\ CacheOff
    /\ StreamOff
    /\ RetryOff

\* One call of prune_conversation; the list handed in is read, never written
Prune ==
    /\ p_pc = "input"
    /\ p_out' = prune_conversation(p_in.messages, p_in.max_chars,
                                   p_in.keep_recent_exchanges)
    /\ p_pc' = "pruned"
    /\ UNCHANGED p_in
    /\ UNCHANGED <<loopVars, routerVars, graphVars, convVars, cacheVars, streamVars, retryVars>>

NextPruner == Prune

SpecPruner == InitPruner /\ [][NextPruner]_vars

----------------------------------------------------------------------------
\* Claims about prune_conversation

OverBudget == total_chars(p_in.messages) > p_in.max_chars

\* C11: for every non-empty conversation and every budget, the list returned by
\* prune_conversation has the original first message at index 0 with its role and
\* content unchanged, also when that message alone exceeds the budget; and the
\* list handed in is the same before and after the call.
C11_FirstMessageKept ==
    /\ [](p_pc = "pruned" =>
            /\ p_out # <<>>
            /\ p_out[1] = p_in.messages[1]
            /\ p_out[1].role = p_in.messages[1].role
            /\ p_out[1].content = p_in.messages[1].content)
    /\ [][p_pc = "input" => p_in' = p_in]_vars

C11_Witness ==
    /\ p_pc = "pruned"
    /\ char_len(p_in.messages[1].content) > p_in.max_chars
    /\ p_in.messages[1].role = "assistant"
    /\ \E q \in DOMAIN p_out : p_out[q] # p_in.messages[q]

\* C12: for every conversation whose total content character count exceeds
\* max_chars, the returned list has a strictly smaller total content character
\* count than the list handed in.
C12_StrictlyShorter ==
    (p_pc = "pruned" /\ OverBudget) =>
        total_chars(p_out) < total_chars(p_in.messages)

\* Positions (from 1) of the assistant messages at or after position q
AssistantsFrom(q) ==
    { r \in q..Len(p_in.messages) : p_in.messages[r].role = "assistant" }

\* Positions that start the last k assistant+tool groups: an assistant message
\* with exactly k assistant messages from it to the end
KthRecentAssistant(k) ==
    { q \in 1..Len(p_in.messages) :
        /\ p_in.messages[q].role = "assistant"
        /\ Cardinality(AssistantsFrom(q)) = k }

\* C13: for every over-budget conversation and every keep_recent_exchanges = k,
\* the messages from the k-th most recent assistant message to the end are in the
\* result verbatim and in the same order; only tool and assistant messages before
\* that boundary are summarised or trimmed; and the number of messages is
\* unchanged.
C13_RecentGroupsVerbatim ==
    (p_pc = "pruned" /\ OverBudget) =>
        /\ Len(p_out) = Len(p_in.messages)
        /\ \A b \in KthRecentAssistant(p_in.keep_recent_exchanges) :
             /\ \A q \in b..Len(p_in.messages) : p_out[q] = p_in.messages[q]
             /\ \A q \in 1..Len(p_in.messages) :
                  p_out[q] # p_in.messages[q] => q < b
        /\ \A q \in 1..Len(p_in.messages) :
             p_out[q] # p_in.messages[q] =>
                 /\ p_in.messages[q].role \in {"tool", "assistant"}
                 /\ p_out[q].role = p_in.messages[q].role

C13_Witness ==
    /\ p_pc = "pruned"
    /\ OverBudget
    /\ p_in.keep_recent_exchanges = 2
    /\ KthRecentAssistant(2) = {3}
    /\ p_out[2] # p_in.messages[2]
    /\ p_out[3] = p_in.messages[3]
    /\ p_in.messages[3].content = Text("raw", <<250>>)

----------------------------------------------------------------------------
\* The conversation of BaseAgent.run (agents/base.py): built from the system
\* prompt and the user message, pruned at the top of an iteration when it has
\* grown, extended by the assistant message of a model response that asks for
\* tools and by one tool message for each of its calls.  The iteration cap, the
\* permission gate and the tools themselves are in the loop machine above; here a
\* run may end at any iteration and a tool message carries any of the contents.

\* Bound of the conversation model
MaxConv == 12           \* messages in self._conversation

\* estimate_tokens, of a text of the given length
estimate_tokens(length) ==
    IF length = 0 THEN 0
    ELSE IF length \div 4 >= 1 THEN length \div 4 ELSE 1

\* len(json.dumps(message.tool_calls)): a call {"id": "call_1", "type":
\* "function", "function": {"name": "file_read", "arguments": "{\"path\": \"a\"}"}}
\* takes 105 characters, the separators and brackets two more for each call
tool_calls_json_len(tool_calls) == 107 * Len(tool_calls)

\* estimate_message_tokens
estimate_message_tokens(message) ==
    4 + estimate_tokens(char_len(message.content))
      + (IF message.tool_calls # <<>>
         THEN estimate_tokens(tool_calls_json_len(message.tool_calls)) ELSE 0)
      + (IF message.name # "" THEN estimate_tokens(name_len(message.name)) ELSE 0)

\* estimate_conversation_tokens
RECURSIVE estimate_conversation_tokens(_)
estimate_conversation_tokens(messages) ==
    IF messages = <<>> THEN 0
    ELSE estimate_message_tokens(Head(messages))
         + estimate_conversation_tokens(Tail(messages))

\* The pruning step at the top of an iteration.  est_tokens > context_limit * 0.75
\* is 4 * est_tokens > 3 * context_limit, and int(context_limit * 4 * 0.40) is
\* context_limit * 160 \div 100 for the windows of this model (1600 and 204800,
\* 2400 and 307200 for the 60% budget)
prune_if_large(messages, context_limit) ==
    IF Len(messages) > 8
    THEN LET est_tokens == estimate_conversation_tokens(messages)
         IN  IF 4 * est_tokens > 3 * context_limit
             THEN prune_conversation(messages, (context_limit * 160) \div 100, 3)
             ELSE IF 2 * est_tokens > context_limit
             THEN prune_conversation(messages, (context_limit * 240) \div 100, 3)
             ELSE messages
    ELSE messages

\* context_window: the default, and a small window
ContextWindows == {1000, 128000}

\* Contents of the messages: a short text, and one line that alone passes half
\* of the default window
\* (truncate_tool_result hands back a file_read output of up to 100 lines whole)
ConvTexts == { Text("raw", <<3>>), Text("raw", <<300000>>) }

\* The tool calls of the next model response: ids follow those already used
next_call_ids(log, n) ==
    LET used == Cardinality({ p \in 1..Len(log) : log[p].role = "tool" })
    IN  [k \in 1..n |-> used + k]

InitConv ==
    /\ c_window \in ContextWindows
    /\ c_conv = << Message("system", Text("raw", <<100>>), <<>>, 0, ""),
                   Message("user", Text("raw", <<20>>), <<>>, 0, "") >>
    /\ c_log = c_conv
    /\ c_pending = <<>>
    /\ c_pc = "loop_top"
    /\ LoopOff
    /\ RouterOff
    /\ GraphOff
    /\ PrunerOff
    /\ CacheOff
    /\ StreamOff
    /\ RetryOff

\* One iteration up to the dispatch of its tool calls: the pruning step, the
\* model call, and either the return of the response (no tool calls, or the run
\* stopped at the cap) or the append of the assistant message
ConvIterate ==
    /\ c_pc = "loop_top"
    /\ LET pruned == prune_if_large(c_conv, c_window)
       IN  \/ /\ c_conv' = pruned
              /\ c_pc' = "returned"
              /\ UNCHANGED <<c_log, c_pending>>
           \/ \E n \in 1..MaxBatch, content \in ConvTexts :
                /\ Len(c_conv) + 1 + n <= MaxConv
                /\ LET ids == next_call_ids(c_log, n)
                       msg == Message("assistant", content, ids, 0, "")
                   IN  /\ c_conv' = Append(pruned, msg)
                       /\ c_log' = Append(c_log, msg)
                       /\ c_pending' = ids
                /\ c_pc' = "dispatch"
    /\ UNCHANGED c_window
    /\ UNCHANGED <<loopVars, routerVars, graphVars, prunerVars, cacheVars, streamVars, retryVars>>

\* The tool message of the next call of the batch (both branches append the
\* messages in the order of the calls)
ConvToolMessage ==
    /\ c_pc = "dispatch"
    /\ \E content \in ConvTexts :
         LET msg == Message("tool", content, <<>>, Head(c_pending), "file_read")
         IN  /\ c_conv' = Append(c_conv, msg)
             /\ c_log' = Append(c_log, msg)
    /\ c_pending' = Tail(c_pending)
    /\ c_pc' = IF Len(c_pending) = 1 THEN "loop_top" ELSE "dispatch"
    /\ UNCHANGED c_window
    /\ UNCHANGED <<loopVars, routerVars, graphVars, prunerVars, cacheVars, streamVars, retryVars>>

NextConv ==
    \/ ConvIterate
    \/ ConvToolMessage

SpecConv == InitConv /\ [][NextConv]_vars

\* The message at position p is the one appended p-th: same role, same calls,
\* same call id, same tool name
SameMessage(p) ==
    /\ c_conv[p].role = c_log[p].role
    /\ c_conv[p].tool_calls = c_log[p].tool_calls
    /\ c_conv[p].tool_call_id = c_log[p].tool_call_id
    /\ c_conv[p].name = c_log[p].name

\* C18: the conversation of the loop always has the system message first and the
\* user message second, both as they were built, followed by the assistant and
\* tool messages in the order they were appended; pruning changes contents only,
\* it never reorders, drops or inserts a message
C18_ConversationOrderKept ==
    c_pc # "off" =>
        /\ Len(c_conv) = Len(c_log)
        /\ c_conv[1] = c_log[1] /\ c_conv[1].role = "system"
        /\ c_conv[2] = c_log[2] /\ c_conv[2].role = "user"
        /\ \A p \in 3..Len(c_conv) :
             /\ SameMessage(p)
             /\ c_conv[p].role \in {"assistant", "tool"}
             /\ \/ c_conv[p].content = c_log[p].content
                \/ c_conv[p].content.form \in {"summary", "trimmed"}

\* A conversation of more than 8 messages that was pruned: an old tool message
\* is a summary line and an old assistant message is trimmed
C18_Witness ==
    /\ c_pc # "off"
    /\ Len(c_conv) > 8
    /\ \E p \in 3..Len(c_conv) : c_conv[p].content.form = "summary"
    /\ \E p \in 3..Len(c_conv) : c_conv[p].content.form = "trimmed"

----------------------------------------------------------------------------
\* Further claims about the workflow graph

VisitCount(name) == Cardinality({k \in DOMAIN trace : trace[k] = name})

\* C17: within one handle() review_iteration starts at 0, never decreases or
\* resets from node to node, and goes up by exactly one on each visit of
\* auto_review (also when the reviewer is missing or fails): it always equals the
\* number of auto_review visits so far.
C17_ReviewIterationCountsVisits ==
    /\ [](st.review_iteration = VisitCount("auto_review"))
    /\ [](trace = <<>> => st.review_iteration = 0)
    /\ [][ /\ st'.review_iteration >= st.review_iteration
           /\ st'.review_iteration =
                  IF node = "auto_review" THEN st.review_iteration + 1
                  ELSE st.review_iteration ]_vars

\* Two visits of auto_review, the reviewer failing on the second
C17_Witness ==
    /\ VisitCount("auto_review") = 2
    /\ st.review_iteration = 2
    /\ runs.reviewer = 2
    /\ Len(review_log) = 1

\* The latest run of the selected agent raised
AgentRaised == coder_log # <<>> /\ coder_log[Len(coder_log)].outcome = "raise"

\* The last execute_agent entry of the trace
LastExecuteAgent ==
    CHOOSE k \in DOMAIN trace :
        /\ trace[k] = "execute_agent"
        /\ \A j \in DOMAIN trace : j > k => trace[j] # "execute_agent"

MaxCycleVisits ==
    IF g_cfg.max_review_iterations >= 1 THEN g_cfg.max_review_iterations ELSE 1

C21_ReviewIffFlaggedAndToolCalls ==
    /\ [][ node = "execute_agent" =>
             /\ node' \in {"auto_review", "finalize"}
             /\ node' = "auto_review" <=>
                    /\ g_cfg.auto_review
                    /\ routed.needs_review
                    /\ st'.agent_response.tool_calls_made # <<>> ]_vars
    /\ [][ runs'.reviewer # runs.reviewer => node = "auto_review" ]_vars

\* execute_agent has just run with a read-only tool call, flagged for review,
\* and the reviewer is about to run for the first time
C21_Witness ==
    /\ node = "auto_review"
    /\ trace[Len(trace)] = "execute_agent"
    /\ g_cfg.auto_review /\ routed.needs_review
    /\ coder_log[Len(coder_log)].outcome = "read"
    /\ runs.reviewer = 0


\* The review texts of this model that ask for a fix: no sentinel at the start
\* once stripped, and CRITICAL or HIGH somewhere in them in any letter case
FixTexts == { <<"CRITICAL", "bug">>, <<"high", "bug">>, <<"highlight">> }

\* C22: the step out of auto_review leads back to execute_agent exactly when the
\* state holds a review response, review_iteration (already incremented) is
\* below max_review_iterations, the stripped review text does not start with
\* NO_ISSUES_FOUND and the text contains CRITICAL or HIGH in any letter case; it
\* leads to finalize otherwise
C22_FixIffSevereAndBelowCap ==
    [][ node = "auto_review" =>
          /\ node' \in {"execute_agent", "finalize"}
          /\ node' = "execute_agent" <=>
                 /\ st'.review_response # NoResponse
                 /\ st'.review_iteration < g_cfg.max_review_iterations
                 /\ st'.review_response.content \in FixTexts ]_vars

\* A fix pass asked for by a review whose only marker is inside a lower-case word
C22_Witness ==
    /\ node = "execute_agent"
    /\ trace[Len(trace)] = "auto_review"
    /\ st.review_response # NoResponse
    /\ st.review_response.content = <<"highlight">>
    /\ st.review_iteration = 1


\* C23: the step out of plan_gate leads to execute_planner exactly when
\* auto-planning is enabled, the routing model flagged needs_planning, the
\* selected agent is the configured default agent and a planner is registered; it
\* leads to execute_agent otherwise, and the planner only runs in execute_planner
C23_PlanIffDefaultAgentFlagged ==
    /\ [][ node = "plan_gate" =>
             /\ node' \in {"execute_planner", "execute_agent"}
             /\ node' = "execute_planner" <=>
                    /\ g_cfg.auto_plan
                    /\ routed.needs_planning
                    /\ st.selected_agent = g_cfg.default_agent
                    /\ "planner" \in g_cfg.agents ]_vars
    /\ [][ runs'.planner # runs.planner => node = "execute_planner" ]_vars


\* The answers of this model that reject the plan: "reject", "n" or "no" once
\* stripped and lower-cased
RejectAnswers == {"Reject", "N"}

\* C24: execute_planner always leads to approve_plan, and approve_plan leads to
\* finalize exactly when the handler answered with a rejection; with any other
\* answer, with no handler, with a handler that raises and with no plan (the
\* planner failed) it leads to execute_agent, and the selected agent is then run
C24_OnlyRejectionSkipsExecution ==
    /\ [][ node = "execute_planner" => node' = "approve_plan" ]_vars
    /\ [][ node = "approve_plan" =>
             /\ node' \in {"execute_agent", "finalize"}
             /\ node' = "finalize" <=> approval' \in RejectAnswers ]_vars
    /\ [](Visited("approve_plan") /\ approval \in RejectAnswers =>
              ~Visited("execute_agent") /\ runs.agent = 0)
    /\ (Visited("approve_plan") /\ approval \notin RejectAnswers)
           ~> Visited("execute_agent")

\* The selected agent has run after the handler answered the approval question
\* with an edit instruction
C24_Witness ==
    /\ Visited("execute_planner")
    /\ approval = "use sqlite"
    /\ st.plan_approved
    /\ runs.agent = 1
    /\ trace[Len(trace)] = "execute_agent"


\* C25: when handle() is given an agent name, route returns the state as it got
\* it: the routing model is never called, the selected agent stays the one
\* handed in, needs_review and needs_planning stay false, and neither the
\* planner nor the auto-review runs
C25_PreselectedAgentSkipsRouting ==
    /\ [](g_cfg.agent_name # "" =>
              /\ runs.router = 0
              /\ st.selected_agent = g_cfg.agent_name
              /\ ~st.needs_review /\ ~st.needs_planning
              /\ runs.planner = 0 /\ runs.reviewer = 0
              /\ ~Visited("execute_planner") /\ ~Visited("auto_review"))
    /\ [][ node = "route" /\ g_cfg.agent_name # "" =>
             st' = st /\ node' = "plan_gate" ]_vars

\* handle() has returned for a pre-selected reviewer that made a write call
\* with auto-review and auto-planning on and a planner registered
C25_Witness ==
    /\ node = "returned"
    /\ g_cfg.agent_name = "reviewer"
    /\ g_cfg.agents = {"coder", "planner", "reviewer"}
    /\ g_cfg.auto_review /\ g_cfg.auto_plan
    /\ runs.agent = 1
    /\ coder_log[1].outcome = "write"
    /\ trace = <<"pre_analyze", "route", "plan_gate", "execute_agent", "finalize">>


----------------------------------------------------------------------------
\* Further claims about the model router

\* A sequence with every element kept at its first occurrence only
RECURSIVE FirstOccurrences(_)
FirstOccurrences(s) ==
    IF s = <<>> THEN <<>>
    ELSE LET before == FirstOccurrences(SubSeq(s, 1, Len(s) - 1))
         IN  IF InSeq(s[Len(s)], before) THEN before ELSE Append(before, s[Len(s)])

\* The models the configuration names as a default: the router's default model
\* and the model of the "default" role mapping
ConfiguredDefaults(c) ==
    {c.default_model}
        \cup (IF "default" \in DOMAIN c.role_models
              THEN {c.role_models["default"].model} ELSE {})

\* C26: the chain starts with the primary (the explicit model if one is given,
\* else the model mapped to the role if the role has a mapping, else a
\* configured default), goes on with the role's fallback and then the global
\* fallbacks in their configured order, and holds no model twice
C26_ChainOrder ==
    r_pc # "off" =>
        LET c == r_cfg
            role_fallback == IF c.role # "" THEN resolve_fallback(c.role_models, c.role)
                             ELSE ""
            listed == <<chain[1]>>
                          \o (IF role_fallback # "" THEN <<role_fallback>> ELSE <<>>)
                          \o c.fallback_models
        IN  /\ chain # <<>>
            /\ IF c.model # "" THEN chain[1] = c.model
               ELSE IF c.role # "" /\ c.role \in DOMAIN c.role_models
               THEN chain[1] = c.role_models[c.role].model
               ELSE chain[1] \in ConfiguredDefaults(c)
            /\ chain = FirstOccurrences(listed)
            /\ \A j, k \in 1..Len(chain) : j # k => chain[j] # chain[k]


\* The models of a sequence of calls, a run of calls on one model counted once
RECURSIVE TriedInOrder(_)
TriedInOrder(log) ==
    IF log = <<>> THEN <<>>
    ELSE IF Len(log) >= 2 /\ log[1].model = log[2].model THEN TriedInOrder(Tail(log))
    ELSE <<log[1].model>> \o TriedInOrder(Tail(log))

\* C27: when complete() ends because every candidate failed, each candidate of
\* the chain was tried once, in chain order, no call succeeded, no response is
\* returned, and the error raised ("All models failed") names the failure of the
\* last candidate; nothing happens after it
C27_AllFailedAfterWholeChain ==
    /\ [](r_pc = "all_failed" /\ r_cfg.call = "complete" =>
              /\ TriedInOrder(calls_log) = chain
              /\ \A k \in 1..Len(calls_log) : calls_log[k].outcome # "ok"
              /\ r_result = ""
              /\ last_error = chain[Len(chain)]
              /\ last_error = calls_log[Len(calls_log)].model)
    /\ [][ r_pc # "all_failed" ]_vars

\* complete() has failed after a chain of three models, the first two given up
\* at once and the last one after a retry
C27_Witness ==
    /\ r_pc = "all_failed"
    /\ r_cfg.call = "complete"
    /\ chain = <<"A", "B", "C">>
    /\ calls_log = << [model |-> "A", outcome |-> "permanent"],
                      [model |-> "B", outcome |-> "permanent"],
                      [model |-> "C", outcome |-> "retryable"],
                      [model |-> "C", outcome |-> "retryable"] >>
    /\ last_error = "C"


----------------------------------------------------------------------------
\* Further claims about BaseAgent.run

\* In conv, every assistant message with k tool calls is followed at once by
\* exactly k tool messages that answer its calls in request order, and every
\* tool message answers a call of the nearest assistant message before it
PairedBatches(conv) ==
    /\ \A p \in 1..Len(conv) :
         conv[p].role = "assistant" =>
             LET k == Len(conv[p].tool_calls)
             IN  /\ p + k <= Len(conv)
                 /\ \A j \in 1..k :
                      /\ conv[p + j].role = "tool"
                      /\ conv[p + j].tool_call_id = conv[p].tool_calls[j]
                 /\ p + k < Len(conv) => conv[p + k + 1].role # "tool"
    /\ \A q \in 1..Len(conv) :
         conv[q].role = "tool" =>
             \E p \in 1..(q - 1) :
                 /\ conv[p].role = "assistant"
                 /\ q - p <= Len(conv[p].tool_calls)

----------------------------------------------------------------------------
\* The caches: BaseAgent._get_tool_schemas (agents/base.py) keeps the schema
\* list of the agent's tools, GraphOrchestrator._get_router_prompt
\* (agents/graph.py) the routing prompt with the list of agents.  Tools and
\* agents can be registered at any time (ToolRegistry.register,
\* AgentRegistry.register); a registry is a dict, so a name registered again
\* keeps its place.

ToolNames == {"file_read", "grep", "bash"}
AgentNames == {"coder", "reviewer", "planner"}

\* self._tools[tool.name] = tool, self._agents[agent.name] = agent
register(registry, name) ==
    IF InSeq(name, registry) THEN registry ELSE Append(registry, name)

\* BaseTool.to_openai_schema
to_openai_schema(name) == [type |-> "function", function |-> [name |-> name]]

\* BaseAgent._get_tools
get_tools(registry, tools) ==
    IF tools = <<>> THEN registry
    ELSE SelectSeq(registry, LAMBDA t : InSeq(t, tools))

\* [t.to_openai_schema() for t in self._get_tools()]
tool_schemas(registry, tools) ==
    LET mine == get_tools(registry, tools)
    IN  [k \in 1..Len(mine) |-> to_openai_schema(mine[k])]

\* ROUTER_PROMPT.format(agents=agents_desc): the prompt text and one line for
\* each registered agent
router_prompt(agents) ==
    <<"You are a task router.">>
        \o [k \in 1..Len(agents) |-> [line |-> "- name: description", name |-> agents[k]]]

\* A cache: None until it is built
NotBuilt == [built |-> FALSE, value |-> <<>>]
Built(value) == [built |-> TRUE, value |-> value]

InitCache ==
    /\ tool_registry \in {<<"file_read">>, <<"file_read", "grep">>}
    /\ agent_tools \in {<<>>, <<"file_read", "bash">>}
    /\ tool_schemas_cache = NotBuilt
    /\ passed_tools = <<>>
    /\ agent_registry \in {<<"coder">>, <<"coder", "reviewer">>}
    /\ router_prompt_cache = NotBuilt
    /\ passed_prompt = <<>>
    /\ k_pc = "built"
    /\ LoopOff
    /\ RouterOff
    /\ GraphOff
    /\ PrunerOff
    /\ ConvOff
    /\ StreamOff
    /\ RetryOff

\* ToolRegistry.register
RegisterTool ==
    /\ k_pc # "off"
    /\ \E name \in ToolNames : tool_registry' = register(tool_registry, name)
    /\ k_pc' = "register_tool"
    /\ UNCHANGED <<agent_tools, tool_schemas_cache, passed_tools, agent_registry,
                   router_prompt_cache, passed_prompt>>
    /\ UNCHANGED <<loopVars, routerVars, graphVars, prunerVars, convVars, streamVars, retryVars>>

\* AgentRegistry.register
RegisterAgent ==
    /\ k_pc # "off"
    /\ \E name \in AgentNames : agent_registry' = register(agent_registry, name)
    /\ k_pc' = "register_agent"
    /\ UNCHANGED <<tool_registry, agent_tools, tool_schemas_cache, passed_tools,
                   router_prompt_cache, passed_prompt>>
    /\ UNCHANGED <<loopVars, routerVars, graphVars, prunerVars, convVars, streamVars, retryVars>>

\* BaseAgent.run: `tool_schemas = self._get_tool_schemas()`, handed to every
\* model call of the run as tools=
RunAgent ==
    /\ k_pc # "off"
    /\ LET schemas == IF tool_schemas_cache.built THEN tool_schemas_cache.value
                      ELSE tool_schemas(tool_registry, agent_tools)
       IN  /\ tool_schemas_cache' = Built(schemas)
           /\ passed_tools' = schemas
    /\ k_pc' = "run"
    /\ UNCHANGED <<tool_registry, agent_tools, agent_registry, router_prompt_cache,
                   passed_prompt>>
    /\ UNCHANGED <<loopVars, routerVars, graphVars, prunerVars, convVars, streamVars, retryVars>>

\* _route_node with no pre-selected agent and more than one agent registered:
\* `prompt = self._get_router_prompt()` is the system message of the routing call
RouteMessage ==
    /\ k_pc # "off"
    /\ Len(agent_registry) > 1
    /\ LET prompt == IF router_prompt_cache.built THEN router_prompt_cache.value
                     ELSE router_prompt(agent_registry)
       IN  /\ router_prompt_cache' = Built(prompt)
           /\ passed_prompt' = prompt
    /\ k_pc' = "route"
    /\ UNCHANGED <<tool_registry, agent_tools, tool_schemas_cache, passed_tools,
                   agent_registry>>
    /\ UNCHANGED <<loopVars, routerVars, graphVars, prunerVars, convVars, streamVars, retryVars>>

NextCache ==
    \/ RegisterTool
    \/ RegisterAgent
    \/ RunAgent
    \/ RouteMessage

SpecCache == InitCache /\ [][NextCache]_vars

\* C29: the cached schema list and the cached routing prompt follow the tool
\* set and the agent set: a run that has just started handed the model the
\* schemas of the agent's current tools, and a routing call that was just made
\* listed the agents registered now
C29_CachesFollowRegistries ==
    /\ k_pc = "run" => passed_tools = tool_schemas(tool_registry, agent_tools)
    /\ k_pc = "route" => passed_prompt = router_prompt(agent_registry)


----------------------------------------------------------------------------
\* Further claims about finalize

\* C30: the auxiliary model call of the memory extraction is made only in
\* finalize, at most once, and only when a memory store is attached and the
\* agent response in the state records a file_write or file_edit call; without
\* the call nothing is added to the store; and finalize hands the state on
\* unchanged to END whatever the extraction did, so the response handle()
\* returns is built from the same state
C30_ExtractionOnlyAfterWrites ==
    /\ [](memory.calls > 0 =>
              /\ memory.calls = 1
              /\ Visited("finalize")
              /\ g_cfg.memory_store
              /\ \E k \in DOMAIN st.agent_response.tool_calls_made :
                     st.agent_response.tool_calls_made[k].tool
                         \in {"file_write", "file_edit"})
    /\ [](memory.added > 0 => memory.calls > 0)
    /\ [][ memory' # memory => node = "finalize" ]_vars
    /\ [][ node = "finalize" => st' = st /\ node' = "end" ]_vars
    /\ [](node = "returned" => g_response = final_response(st))

\* handle() has returned after a write call whose extraction added an entry
C30_Witness ==
    /\ node = "returned"
    /\ memory = [calls |-> 1, added |-> 1]
    /\ coder_log[Len(coder_log)].outcome = "write"
    /\ g_response.tool_calls_made = <<[tool |-> "file_write"]>>



----------------------------------------------------------------------------
\* The batch being dispatched is a single call, or holds a call outside
\* {file_read, glob, grep}
SequentialBatch ==
    /\ parsed_calls # <<>>
    /\ \/ Len(parsed_calls) = 1
       \/ \E k \in DOMAIN parsed_calls :
            parsed_calls[k].name \notin {"file_read", "glob", "grep"}

\* The calls of the batch whose _execute_tool has begun and not yet returned
InFlight == {i \in DOMAIN task : task[i].st \in {"perm", "exec"}}

\* The conversation holds the tool message of the call with this id
HasToolMessage(id) ==
    \E p \in DOMAIN conversation :
        conversation[p].role = "tool" /\ conversation[p].tool_call_id = id

\* C31: a single call, or a batch with a call outside {file_read, glob, grep}, is
\* dispatched one call at a time in request order: a call's dispatch has begun
\* only if every earlier call of the batch has completed and its tool message is
\* in the conversation, and no two calls of the batch are in flight together.
C31_SequentialDispatchInOrder ==
    SequentialBatch =>
        /\ Cardinality(InFlight) <= 1
        /\ \A i \in DOMAIN task :
             task[i].st # "new" =>
                 \A j \in 1..(i - 1) :
                     /\ task[j].st = "done"
                     /\ HasToolMessage(parsed_calls[j].id)

\* A read followed by a write: the write is in flight, the read has completed
\* and its message is already in the conversation
C31_Witness ==
    /\ Len(parsed_calls) = 2
    /\ parsed_calls[1].name = "file_read"
    /\ parsed_calls[2].name = "file_write"
    /\ task[2].st = "exec"
    /\ task[1].st = "done"
    /\ conversation[Len(conversation)].tool_call_id = parsed_calls[1].id


----------------------------------------------------------------------------
\* BaseAgent._stream_complete (agents/base.py): the assembly of one streamed
\* model call. Usage, finish reason and cost are not part of this machine.
MaxStream == 3          \* chunks of one streamed model call

\* A tool-call delta as LiteLLMProvider.stream builds it: tc.index, the id and the
\* function name the backend sent ("" stands for None), the argument fragment
\* (a text is a sequence of tokens, "" the empty sequence)
Delta(index, id, name, arguments) ==
    [index |-> index, id |-> id, name |-> name, arguments |-> arguments]
Deltas ==
    {Delta(i, n[1], n[2], a) :
        i \in {0, 1},
        n \in {<<"", "">>, <<"call_1", "grep">>, <<"call_2", "glob">>},
        a \in {<<>>, <<"x">>, <<"y">>}}

StreamChunk(content, tool_calls) == [content |-> content, tool_calls |-> tool_calls]
StreamChunks ==
    {StreamChunk(t, <<>>) : t \in {<<>>, <<"a">>, <<"b">>}}
    \cup {StreamChunk(<<>>, <<d>>) : d \in Deltas}
    \cup {StreamChunk(<<"a">>, <<Delta(0, "call_1", "grep", <<"x">>)>>),
          StreamChunk(<<>>, <<Delta(1, "call_2", "glob", <<"x">>),
                              Delta(0, "call_1", "grep", <<"y">>)>>),
          StreamChunk(<<>>, <<Delta(0, "", "", <<"x">>),
                              Delta(0, "", "", <<"y">>)>>)}

\* The body of `for tc_delta in chunk.tool_calls` (lines 212-230)
merge_delta_first(acc, d) ==
    LET entry == IF d.index \notin DOMAIN acc
                 THEN [id |-> d.id, name |-> d.name, arguments |-> <<>>]
                 ELSE acc[d.index]
    IN  (d.index :> [entry EXCEPT !.arguments = @ \o d.arguments]) @@ acc
merge_delta(acc, d) ==
    LET entry == IF d.index \notin DOMAIN acc
                 THEN [id |-> d.id, name |-> d.name, arguments |-> <<>>]
                 ELSE [acc[d.index] EXCEPT
                          !.id = IF d.id # "" THEN d.id ELSE @,
                          !.name = IF d.name # "" THEN d.name ELSE @]
    IN  (d.index :> [entry EXCEPT !.arguments = @ \o d.arguments]) @@ acc

RECURSIVE merge_deltas(_, _)
merge_deltas(acc, deltas) ==
    IF deltas = <<>> THEN acc
    ELSE merge_deltas(merge_delta(acc, Head(deltas)), Tail(deltas))

\* sorted(accumulated_tool_calls)
RECURSIVE sorted(_)
sorted(keys) ==
    IF keys = {} THEN <<>>
    ELSE LET least == CHOOSE k \in keys : \A other \in keys : k <= other
         IN  <<least>> \o sorted(keys \ {least})

assemble(content, acc) ==
    LET order == sorted(DOMAIN acc)
    IN  LLMResponse(content, [k \in 1..Len(order) |-> acc[order[k]]])

InitStream ==
    /\ s_pc = "streaming"
    /\ s_chunks = <<>>
    /\ full_content = <<>>
    /\ accumulated_tool_calls = <<>>
    /\ stream_sink = <<>>
    /\ s_response = NoLLMResponse
    /\ LoopOff
    /\ RouterOff
    /\ GraphOff
    /\ PrunerOff
    /\ ConvOff
    /\ CacheOff
    /\ RetryOff

\* One pass of `async for chunk in self._llm.stream(...)` (lines 205-237)
ConsumeChunk ==
    /\ s_pc = "streaming"
    /\ Len(s_chunks) < MaxStream
    /\ \E chunk \in StreamChunks :
         /\ s_chunks' = Append(s_chunks, chunk)
         /\ IF chunk.content # <<>>
            THEN /\ full_content' = full_content \o chunk.content
                 /\ stream_sink' = Append(stream_sink, chunk.content)
            ELSE UNCHANGED <<full_content, stream_sink>>
         /\ accumulated_tool_calls' =
                merge_deltas(accumulated_tool_calls, chunk.tool_calls)
    /\ UNCHANGED <<s_pc, s_response>>
    /\ UNCHANGED <<loopVars, routerVars, graphVars, prunerVars, convVars, cacheVars,
                   retryVars>>

\* The stream ends and the response is assembled (lines 239-250)
StreamReturn ==
    /\ s_pc = "streaming"
    /\ s_response' = assemble(full_content, accumulated_tool_calls)
    /\ s_pc' = "returned"
    /\ UNCHANGED <<s_chunks, full_content, accumulated_tool_calls, stream_sink>>
    /\ UNCHANGED <<loopVars, routerVars, graphVars, prunerVars, convVars, cacheVars,
                   retryVars>>

\* The router's stream raises: the exception leaves _stream_complete
StreamRaise ==
    /\ s_pc = "streaming"
    /\ s_pc' = "raised"
    /\ UNCHANGED <<s_chunks, full_content, accumulated_tool_calls, stream_sink,
                   s_response>>
    /\ UNCHANGED <<loopVars, routerVars, graphVars, prunerVars, convVars, cacheVars,
                   retryVars>>

NextStream ==
    \/ ConsumeChunk
    \/ StreamReturn
    \/ StreamRaise

SpecStream == InitStream /\ [][NextStream]_vars


----------------------------------------------------------------------------
\* Claims about BaseAgent._stream_complete

\* The text deltas of the chunks, concatenated in order
RECURSIVE TextOf(_)
TextOf(chunks) ==
    IF chunks = <<>> THEN <<>> ELSE Head(chunks).content \o TextOf(Tail(chunks))

\* The tool-call deltas of the chunks, in order
RECURSIVE DeltasOf(_)
DeltasOf(chunks) ==
    IF chunks = <<>> THEN <<>> ELSE Head(chunks).tool_calls \o DeltasOf(Tail(chunks))

\* The deltas of one index, in order, and their argument fragments concatenated
DeltasAt(index) == SelectSeq(DeltasOf(s_chunks), LAMBDA d : d.index = index)

RECURSIVE ArgumentsOf(_)
ArgumentsOf(deltas) ==
    IF deltas = <<>> THEN <<>>
    ELSE Head(deltas).arguments \o ArgumentsOf(Tail(deltas))

StreamIndexes == {DeltasOf(s_chunks)[k].index : k \in DOMAIN DeltasOf(s_chunks)}

\* The position in the assembled tool calls of the call of this index
RankOf(index) == Cardinality({other \in StreamIndexes : other <= index})

\* The latest id and the latest name the deltas carry ("" when none carries one)
LatestId(deltas) ==
    LET given == SelectSeq(deltas, LAMBDA d : d.id # "")
    IN  IF given = <<>> THEN "" ELSE given[Len(given)].id
LatestName(deltas) ==
    LET given == SelectSeq(deltas, LAMBDA d : d.name # "")
    IN  IF given = <<>> THEN "" ELSE given[Len(given)].name

\* Content, sink, and the number, order and argument strings of the tool calls
StreamAssembled ==
    /\ s_response.content = TextOf(s_chunks)
    /\ stream_sink =
         LET texts == [k \in DOMAIN s_chunks |-> s_chunks[k].content]
         IN  SelectSeq(texts, LAMBDA t : t # <<>>)
    /\ Len(s_response.tool_calls) = Cardinality(StreamIndexes)
    /\ \A index \in StreamIndexes :
         s_response.tool_calls[RankOf(index)].arguments
             = ArgumentsOf(DeltasAt(index))

\* C32 (as stated): the assembled content is the concatenation of the text
\* deltas, the sink receives the non-empty text deltas in order, and there is one
\* tool call per distinct index, ordered by index, with the id and name of the
\* first delta of that index and the concatenation of its argument fragments.
C32_StreamAssembledFirstIdName ==
    s_pc = "returned" =>
        /\ StreamAssembled
        /\ \A index \in StreamIndexes :
             /\ s_response.tool_calls[RankOf(index)].id = DeltasAt(index)[1].id
             /\ s_response.tool_calls[RankOf(index)].name = DeltasAt(index)[1].name

\* C32 (amended): as above, but each tool call has the latest non-empty id and the
\* latest non-empty name among the deltas of its index (empty when no delta of
\* the index carries one).
C32_StreamAssembledLatestIdName ==
    s_pc = "returned" =>
        /\ StreamAssembled
        /\ \A index \in StreamIndexes :
             /\ s_response.tool_calls[RankOf(index)].id = LatestId(DeltasAt(index))
             /\ s_response.tool_calls[RankOf(index)].name
                    = LatestName(DeltasAt(index))

\* Text and two indexes; the first delta of index 0 carries no id, a later one
\* does, and their fragments arrive in separate chunks
C32_Witness ==
    /\ s_pc = "returned"
    /\ stream_sink # <<>>
    /\ Len(s_response.tool_calls) = 2
    /\ Len(DeltasAt(0)) = 2
    /\ DeltasAt(0)[1].id = ""
    /\ s_response.tool_calls[1].id = "call_1"
    /\ s_response.tool_calls[1].arguments = <<"x", "y">>


----------------------------------------------------------------------------
\* The positions in tool_events of the events of one kind of one call
EventsOf(event, id) ==
    {p \in DOMAIN tool_events :
        tool_events[p].event = event /\ tool_events[p].call = id}

\* The calls of this run for which _execute_tool was invoked
DispatchedIds == {dispatched[k].id : k \in DOMAIN dispatched}

\* The start and end events of the dispatches so far are well formed: one start
\* per dispatched call, without a result and before the call is executed; an end
\* exactly for the calls that completed, after the start and with the result
ToolEventsWellFormed ==
    /\ \A p \in DOMAIN tool_events : tool_events[p].call \in DispatchedIds
    /\ \A id \in DispatchedIds :
         /\ Cardinality(EventsOf("start", id)) = 1
         /\ \A p \in EventsOf("start", id) : tool_events[p].result = NoResult
         /\ Cardinality(EventsOf("end", id)) <= 1
         /\ \A e \in EventsOf("end", id) :
              /\ \A b \in EventsOf("start", id) : b < e
              /\ tool_events[e].result # NoResult
    /\ \A i \in DOMAIN task :
         LET id == parsed_calls[i].id IN
         /\ task[i].st = "done" <=> EventsOf("end", id) # {}
         /\ \A e \in EventsOf("end", id) : tool_events[e].result = task[i].result

\* C33: with a tool-event callback registered, every dispatched tool call
\* produces exactly one "start" event (no result) and exactly one "end" event
\* (with the result), the start before its execution and the end after its
\* completion, on both paths; the response's tool_calls_made has as many
\* entries as there are start events.
C33_ToolEventsPaired ==
    cfg.tool_event_callback =>
        /\ ToolEventsWellFormed
        /\ pc \in {"returned", "raised"} =>
             \A id \in DispatchedIds : Cardinality(EventsOf("end", id)) = 1
        /\ pc = "returned" =>
             Len(response.tool_calls_made)
                 = Cardinality({p \in DOMAIN tool_events :
                                   tool_events[p].event = "start"})

\* The same for the runs that return
ToolEventsPairedAtReturn ==
    cfg.tool_event_callback =>
        /\ ToolEventsWellFormed
        /\ pc = "returned" =>
             /\ \A id \in DispatchedIds : Cardinality(EventsOf("end", id)) = 1
             /\ Len(response.tool_calls_made)
                    = Cardinality({p \in DOMAIN tool_events :
                                      tool_events[p].event = "start"})


----------------------------------------------------------------------------
\* with_retry (llm/retry.py). Delays are whole seconds here; the code's floats
\* double and compare exactly on these values.
MaxBackoff == 5         \* RetryConfig.max_retries ranges over 0..MaxBackoff

RECURSIVE pow2(_)
pow2(n) == IF n = 0 THEN 1 ELSE 2 * pow2(n - 1)

\* delay = min(config.base_delay * (2 ** attempt), config.max_delay)
backoff_delay_linear(config, attempt_) ==
    min_of(config.base_delay * (attempt_ + 1), config.max_delay)
backoff_delay(config, attempt_) ==
    min_of(config.base_delay * pow2(attempt_), config.max_delay)

\* delay *= random.uniform(0.5, 1.5): the factor is halves / 2, halves in 1..3
jittered(delay, halves) == (delay * halves) \div 2

InitRetry ==
    /\ w_cfg \in [max_retries : 0..MaxBackoff,
                  base_delay : {0, 2, 10},
                  max_delay : {2, 30},
                  jitter : BOOLEAN]
    /\ w_attempt = 0
    /\ w_sleeps = <<>>
    /\ w_pc = "calling"
    /\ LoopOff
    /\ RouterOff
    /\ GraphOff
    /\ PrunerOff
    /\ ConvOff
    /\ CacheOff
    /\ StreamOff

\* `return await fn()` and the except clause (lines 57-68): fn returns, raises an
\* exception that is not retryable, or raises a retryable one
RetryCall ==
    /\ w_pc = "calling"
    /\ \E outcome \in {"ok", "permanent", "retryable"} :
         CASE outcome = "ok" ->
                /\ w_pc' = "returned"
                /\ UNCHANGED w_sleeps
           [] outcome = "permanent" ->
                /\ w_pc' = "raised"
                /\ UNCHANGED w_sleeps
           [] outcome = "retryable" ->
                IF w_attempt = w_cfg.max_retries
                THEN /\ w_pc' = "raised"
                     /\ UNCHANGED w_sleeps
                ELSE /\ w_pc' = "sleeping"
                     /\ IF w_cfg.jitter
                        THEN \E halves \in 1..3 :
                               w_sleeps' =
                                 Append(w_sleeps,
                                        jittered(backoff_delay(w_cfg, w_attempt),
                                                 halves))
                        ELSE w_sleeps' =
                               Append(w_sleeps, backoff_delay(w_cfg, w_attempt))
    /\ UNCHANGED <<w_cfg, w_attempt>>
    /\ UNCHANGED <<loopVars, routerVars, graphVars, prunerVars, convVars, cacheVars,
                   streamVars>>

\* asyncio.sleep(delay) returns and the `for` goes to the next attempt
RetrySleep ==
    /\ w_pc = "sleeping"
    /\ w_attempt' = w_attempt + 1
    /\ w_pc' = "calling"
    /\ UNCHANGED <<w_cfg, w_sleeps>>
    /\ UNCHANGED <<loopVars, routerVars, graphVars, prunerVars, convVars, cacheVars,
                   streamVars>>

NextRetry ==
    \/ RetryCall
    \/ RetrySleep

SpecRetry == InitRetry /\ [][NextRetry]_vars

\* C34: with jitter off the sleep before retry a (a = 0, 1, ...) is
\* min(base * 2^a, maxDelay); the delays never decrease, double until they reach
\* the cap and never exceed maxDelay.
C34_BackoffDoublesToCap ==
    ~w_cfg.jitter =>
        /\ \A k \in DOMAIN w_sleeps :
             /\ w_sleeps[k] = IF w_cfg.base_delay * (2 ^ (k - 1)) <= w_cfg.max_delay
                              THEN w_cfg.base_delay * (2 ^ (k - 1))
                              ELSE w_cfg.max_delay
             /\ w_sleeps[k] <= w_cfg.max_delay
        /\ \A k \in 1..(Len(w_sleeps) - 1) :
             /\ w_sleeps[k] <= w_sleeps[k + 1]
             /\ w_sleeps[k + 1] = 2 * w_sleeps[k] \/ w_sleeps[k + 1] = w_cfg.max_delay

\* Base 10 and cap 30 give 10, 20, 30, 30, 30
C34_Witness ==
    /\ ~w_cfg.jitter
    /\ w_cfg.base_delay = 10
    /\ w_cfg.max_delay = 30
    /\ w_sleeps = <<10, 20, 30, 30, 30>>


----------------------------------------------------------------------------
\* C35: a permanent (non-retryable) failure as a candidate's first failure makes
\* that one provider attempt the only one for the candidate, with no sleep; the
\* router then goes on to the next candidate of the chain, and the failure reaches
\* the caller only as the chain-exhaustion error, and only when the candidate is
\* the last one.
C35_PermanentFailureStillFallsBack ==
    /\ [](\A k \in DOMAIN calls_log :
            LET m == calls_log[k].model IN
            ( /\ calls_log[k].outcome = "permanent"
              /\ \A j \in 1..(k - 1) : calls_log[j].model # m )
            => /\ AttemptsOn(m) = 1
               /\ SleepsOn(m) = <<>>)
    /\ [][ ( /\ Len(calls_log') = Len(calls_log) + 1
             /\ calls_log'[Len(calls_log')].outcome = "permanent" )
           => /\ sleeps' = sleeps
              /\ IF cand < Len(chain)
                 THEN /\ r_pc' = "attempt"
                      /\ cand' = cand + 1
                      /\ attempt' = 0
                 ELSE /\ r_pc' = "all_failed"
                      /\ last_error' = chain[cand] ]_vars
    /\ [](r_pc = "all_failed" =>
            /\ cand = Len(chain)
            /\ last_error = chain[Len(chain)])

\* A's only attempt failed permanently although a retry was allowed; B answered
C35_Witness ==
    /\ r_cfg.call = "complete"
    /\ r_cfg.max_retries = 1
    /\ calls_log = << [model |-> "A", outcome |-> "permanent"],
                      [model |-> "B", outcome |-> "ok"] >>
    /\ sleeps = <<>>
    /\ r_pc = "returned"
    /\ r_result = "B"


----------------------------------------------------------------------------
\* C36: for every conversation and every budget max_chars, the list returned by
\* prune_conversation fits within the budget: its total content character count
\* is at most max_chars.
C36_PrunedFitsBudget ==
    p_pc = "pruned" => total_chars(p_out) <= p_in.max_chars


----------------------------------------------------------------------------
\* Several handle() invocations on one orchestrator (cli/app.py, server/sse.py:
\* one per user turn, the stream callback set for each)
MaxHandles == 2         \* handle() invocations on one orchestrator

\* Sessions with auto-review on and a reviewer registered
InitGraphSession ==
    /\ g_cfg \in [ auto_review : {TRUE},
                   auto_plan : BOOLEAN,
                   max_review_iterations : {MaxReview - 1},
                   agents : {{"coder", "reviewer"}, {"coder", "planner", "reviewer"}},
                   default_agent : {"coder"},
                   clarification_handler : {FALSE},
                   clarification_mgr : {TRUE},
                   memory_store : {FALSE},
                   agent_name : {"", "reviewer"},
                   context : {<<>>} ]
    /\ handle_start

\* handle() is called again after the call before it has returned or raised: a
\* new initial state, the same registered agents with the callbacks they have
HandleAgain ==
    /\ node \in {"returned", "raised"}
    /\ handles < MaxHandles
    /\ handles' = handles + 1
    /\ \E agent_name \in {"", "reviewer"} :
         /\ g_cfg' = [g_cfg EXCEPT !.agent_name = agent_name]
         /\ st' = initial_state(agent_name, g_cfg.context)
    /\ node' = "pre_analyze"
    /\ trace' = <<>>
    /\ runs' = [planner |-> 0, agent |-> 0, reviewer |-> 0, router |-> 0]
    /\ coder_log' = <<>>
    /\ review_log' = <<>>
    /\ approval' = "<not asked>"
    /\ memory' = [calls |-> 0, added |-> 0]
    /\ routed' = [needs_review |-> FALSE, needs_planning |-> FALSE]
    /\ sink_runs' = {}
    /\ reviewed_run' = 0
    /\ g_response' = NoResponse
    /\ UNCHANGED agent_sinks
    /\ UNCHANGED <<loopVars, routerVars, prunerVars, convVars, cacheVars, streamVars,
                   retryVars>>

NextGraphSession ==
    \/ NextGraph
    \/ HandleAgain

SpecGraphSession == InitGraphSession /\ [][NextGraphSession]_vars

\* C37: during auto-review the reviewer runs without a stream sink: after any
\* sequence of handle() invocations on one orchestrator with a stream callback
\* set, also when the reviewer was the selected agent of an earlier one, no
\* auto-review run forwards text to the stream callback.
C37_AutoReviewHasNoSink == "auto_review" \notin sink_runs


----------------------------------------------------------------------------
\* handle() has returned a response with the Auto-Review section appended
ReviewAppended ==
    /\ node = "returned"
    /\ st.review_response # NoResponse
    /\ st.review_response.content # <<>>

\* C38: whenever handle() returns a response with an appended Auto-Review
\* section, the review is the reviewer's review of the agent response being
\* returned: it was made after, and from, the output of the latest run of the
\* selected agent (a fix pass that makes no tool call, or that fails, is never
\* returned with the review of the pass before it).
C38_AppendedReviewIsOfReturnedResponse ==
    ReviewAppended =>
        /\ reviewed_run = runs.agent
        /\ \E k \in DOMAIN trace :
             /\ trace[k] = "auto_review"
             /\ k > LastExecuteAgent


----------------------------------------------------------------------------
\* The user-facing callbacks of the run that have been started and have not
\* returned: the continue handler, and the permission handler of each call. (The
\* clarification handler is asked and answers within one step of the model.)
CallbacksInFlight ==
    Cardinality({i \in DOMAIN task : task[i].st = "perm"})
        + (IF pc = "continue_wait" THEN 1 ELSE 0)

\* C39: within one run at most one user-facing callback (permission check,
\* continue check, clarification) is in flight at any time: no second one is
\* started before the one before it has returned, also while a parallel read-only
\* batch is dispatched with a permission handler registered.
C39_OneCallbackInFlight == CallbacksInFlight <= 1


----------------------------------------------------------------------------
\* max(1, max_review_iterations)
PassCap ==
    IF g_cfg.max_review_iterations > 1 THEN g_cfg.max_review_iterations ELSE 1

\* C40: within one handle(), for every max_review_iterations m >= 0 and whatever
\* the reviewer answers, the selected agent is executed at most max(1, m) times
\* and the reviewer is run at most max(1, m) times; no fix pass is started once
\* review_iteration has reached m.
C40_PassesWithinReviewCap ==
    /\ [](/\ runs.agent <= PassCap
          /\ runs.reviewer <= PassCap
          /\ VisitCount("execute_agent") <= PassCap
          /\ VisitCount("auto_review") <= PassCap)
    /\ [][ (node = "auto_review" /\ node' = "execute_agent")
           => st'.review_iteration < g_cfg.max_review_iterations ]_vars

\* Both passes of a cap of two were used: the agent ran twice, the reviewer twice,
\* and the second review, still severe, did not start a third pass
C40_Witness ==
    /\ g_cfg.max_review_iterations = 2
    /\ runs.agent = 2
    /\ runs.reviewer = 2
    /\ st.review_iteration = 2
    /\ should_fix_uncapped(g_cfg, st) = "fix"
    /\ node = "returned"

====
